---- MODULE Spec2Model ----
(***************************************************************************)
(* Model of the ada-snapfix accessibility scan pipeline:                   *)
(*   - issue deduplication      (app/api/scan/enhanced-simple/route.ts)    *)
(*   - report scoring, priority and categories (lib/static-analyzer.ts)    *)
(*   - WCAG coverage and the enhanced-simple scan handler                  *)
(*                              (app/api/scan/enhanced-simple/route.ts)    *)
(*   - the scan request handlers and their browser fallback chain          *)
(*                              (app/api/scan/route.ts, the quick scan)    *)
(***************************************************************************)
EXTENDS Integers, Sequences, FiniteSets, TLC

VARIABLES
    \* ---- deduplication (enhanced-simple route) ----
    allIssues,            \* the combined issue list, in discovery order
    deduplicatedIssues,   \* deduplicateIssues(allIssues), once dedupeDone
    dedupeDone,           \* TRUE once the route has deduplicated
    \* ---- report payload (buildReportPayload) ----
    scanIssues,           \* scan.issues handed to buildReportPayload
    violations,           \* number of engine violations mapped so far
    payload,              \* the ReportPayload built, once reportDone
    reportDone,           \* TRUE once buildReportPayload has returned
    now,                  \* Date.now(), advancing from call to call
    otherScored,          \* the payload built for another scan, if any
    rescored,             \* the payload of a second report of scanIssues
    rescoreDone,          \* TRUE once that second report is built
    \* ---- WCAG coverage (enhanced-simple route) ----
    coverageIssues,       \* the issues handed to calculateWCAGCoverage
    wcagCoverage,         \* what calculateWCAGCoverage returned for them
    \* ---- one enhanced-simple scan request ----
    enhancedUrl,          \* the url of the request body
    enhancedPc,           \* the handler's position
    fetched,              \* fetch(url) has been called
    staticIssues,         \* staticAnalysis.issues
    axeIssues,            \* the issues mapped from axe.run
    pa11yIssues,          \* pa11yResult.issues, [] unless pa11y resolved
    analyzerFailed,       \* the analyzers that threw
    enhancedResponse,     \* the JSON body returned
    \* ---- the rate limit of the suggest route ----
    clients,              \* the (client IP, tier) pairs sending requests
    clock,                \* Date.now(), in milliseconds
    ticks,                \* how often the clock has advanced
    rateLimitStore,       \* the Map from key to {count, resetTime}
    rateLimit,            \* what the last checkRateLimit returned
    granted,              \* per client: the last window reported, and the
                          \* requests allowed with that window
    lastRequest,          \* the client of the last request, and whether its
                          \* stored window was over when the request came
    suggestStatus,        \* how the last request went on
    \* ---- one scan of the streaming client (ScanLogs) ----
    clientScanType,       \* the scanType prop: "full" or "simple"
    serverStream,         \* the events of the response body not read yet
    clientPc,             \* startStreamingScan's position
    logs,                 \* the types of the log entries shown
    isComplete,           \* the isComplete state
    onCompleteCalls,      \* calls of onComplete
    onErrorCalls,         \* calls of onError
    clientAborted,        \* abortController.abort() was called
    \* ---- the static checks on one fetched page ----
    page,                 \* the page's markup, as the checks see it
    analysed,             \* the analyses that have run on it
    staticAnalysis,       \* analyzeStaticHTML(html, url).issues
    simpleScan,           \* performSimpleScan(url).issues
    headingOrderRule,     \* the headings the custom heading-order rule fails
    \* ---- one request to the worker-backed scan route ----
    workerRequest,        \* which handler serves it, and the url of the body
    workerEnv,            \* the worker's health, its scan, the simple scan
    workerPc,             \* the handler's position
    isHealthy,            \* what checkHealth() returned, "unknown" before
    workerCalled,         \* performSyncScan / performStreamingScan was called
    simpleScanRun,        \* performSimpleScan was called
    workerResponse,       \* the JSON body returned, or the results streamed
    workerEvents,         \* the events enqueued on the stream
    workerClosed,         \* calls of controller.close()
    \* ---- one scan request (scan route, quick scan route) ----
    request,              \* which handler serves it, and the url of the body
    platform,             \* what the deployment lets succeed
    pc,                   \* the handler's position
    strategy,             \* index in the chain of the strategy being tried
    launchStrategy,       \* the handler's local of that name
    browser,              \* "none", "open" or "closed"
    inFlight,             \* strategies whose awaited call has not settled
    attempts,             \* the settled attempts, in order
    retryCount,           \* the axe-core wait loop's counter
    axeLoaded,            \* the axe-core wait loop's flag
    gotoOutcome,          \* "none", "loaded", "timeout" or "rejected"
    axeRan,               \* page.evaluate(axe.run) has been called
    response,             \* the JSON body returned, or the results streamed
    events,               \* the events enqueued on the stream
    streamClosed          \* calls of controller.close()

dedupeVars == <<allIssues, deduplicatedIssues, dedupeDone>>
reportVars == <<scanIssues, violations, payload, reportDone, now, otherScored,
                rescored, rescoreDone>>
coverageVars == <<coverageIssues, wcagCoverage>>
enhancedVars == <<enhancedUrl, enhancedPc, fetched, staticIssues, axeIssues,
                  pa11yIssues, analyzerFailed, enhancedResponse>>
rateVars == <<clients, clock, ticks, rateLimitStore, rateLimit, granted, lastRequest,
              suggestStatus>>
clientVars == <<clientScanType, serverStream, clientPc, logs, isComplete, onCompleteCalls, onErrorCalls, clientAborted>>
staticVars == <<page, analysed, staticAnalysis, simpleScan, headingOrderRule>>
workerVars == <<workerRequest, workerEnv, workerPc, isHealthy, workerCalled,
                simpleScanRun, workerResponse, workerEvents, workerClosed>>
earlierVars == <<dedupeVars, reportVars, coverageVars, enhancedVars>>
laterVars == <<workerVars, staticVars, clientVars, rateVars>>
scanVars == <<request, platform, pc, strategy, launchStrategy, browser, inFlight,
              attempts, retryCount, axeLoaded, gotoOutcome, axeRan, response,
              events, streamClosed>>
vars == <<allIssues, deduplicatedIssues, dedupeDone,
          scanIssues, violations, payload, reportDone, now, otherScored,
          rescored, rescoreDone, coverageIssues, wcagCoverage,
          enhancedUrl, enhancedPc, fetched, staticIssues, axeIssues,
          pa11yIssues, analyzerFailed, enhancedResponse,
          clients, clock, ticks, rateLimitStore, rateLimit, granted, lastRequest,
          suggestStatus,
          clientScanType, serverStream, clientPc, logs, isComplete,
          onCompleteCalls, onErrorCalls, clientAborted,
          page, analysed, staticAnalysis, simpleScan, headingOrderRule,
          workerRequest, workerEnv, workerPc, isHealthy, workerCalled,
          simpleScanRun, workerResponse, workerEvents, workerClosed,
          request, platform, pc, strategy, launchStrategy, browser, inFlight,
          attempts, retryCount, axeLoaded, gotoOutcome, axeRan, response,
          events, streamClosed>>

NotRun == "not-run"

(***************************************************************************)
(* Bounds of the model.                                                    *)
(***************************************************************************)
MaxIssues == 3        \* issues combined before deduplication
MaxViolations == 3    \* engine violations fed to one report
MaxNodes == 6         \* affected elements of one violation
MaxScored == 2        \* issues of a scan whose priorities are compared
MaxCovered == 3       \* issues whose WCAG coverage is measured

(***************************************************************************)
(* Deduplication.                                                          *)
(***************************************************************************)
\* Rule ids and selectors are strings; selectors routinely hold ':'
\* (pseudo-classes) and nothing in the issue type forbids it in a rule id.
RuleIds == {"aria", "aria:img"}
Selectors == {"first-child", "img:first-child"}
Sources == {"static-analysis", "axe-core"}
DedupeIssues == [ruleId : RuleIds, selector : Selectors, source : Sources]

\* const key = `${issue.ruleId}:${issue.selector}`
dedupeKey(issue) == issue.ruleId \o ":" \o issue.selector

\* issues.filter(issue => { if (seen.has(key)) return false; seen.add(key); return true })
RECURSIVE filterSeen(_, _)
filterSeen(issues, seen) ==
    IF issues = <<>> THEN <<>>
    ELSE LET key == dedupeKey(Head(issues))
         IN  IF key \in seen
             THEN filterSeen(Tail(issues), seen)
             ELSE <<Head(issues)>> \o filterSeen(Tail(issues), seen \cup {key})

deduplicateIssues(issues) == filterSeen(issues, {})

\* One analyzer's issue joins the combined list (allIssues = [...static, ...axe, ...pa11y]).
CollectIssue(issue) ==
    /\ ~dedupeDone
    /\ Len(allIssues) < MaxIssues
    /\ allIssues' = Append(allIssues, issue)
    /\ UNCHANGED <<deduplicatedIssues, dedupeDone>>

\* const deduplicatedIssues = deduplicateIssues(allIssues)
Deduplicate ==
    /\ ~dedupeDone
    /\ deduplicatedIssues' = deduplicateIssues(allIssues)
    /\ dedupeDone' = TRUE
    /\ UNCHANGED allIssues

(***************************************************************************)
(* Report scoring.                                                         *)
(***************************************************************************)
NoImpact == "null"     \* impact absent: undefined or null
Impacts == {"critical", "serious", "moderate", "minor", NoImpact}
Severities == {"critical", "serious", "moderate", "minor"}

\* Rule findings as the scanners report them: rule id, message text and
\* WCAG reference of an Issue.
ReportRules ==
    { [ruleId |-> "focus-visible",
       message |-> "Element is not reachable by Keyboard", wcag |-> ""],
      [ruleId |-> "color-contrast",
       message |-> "Element has insufficient contrast", wcag |-> "WCAG 2.1 - 1.4.3"],
      [ruleId |-> "link-in-text-block",
       message |-> "Links are not distinguishable", wcag |-> "WCAG 2.1 - 1.4.3"],
      [ruleId |-> "aria-input-field-name",
       message |-> "aria-label attribute does not exist or is empty", wcag |-> ""],
      [ruleId |-> "landmark-one-main",
       message |-> "Document does not have a main landmark", wcag |-> ""],
      [ruleId |-> "heading-order",
       message |-> "Heading order invalid", wcag |-> "WCAG 2.1 - 1.3.1"],
      [ruleId |-> "region",
       message |-> "Navigation menu is not contained by landmarks", wcag |-> ""],
      [ruleId |-> "list",
       message |-> "Semantic structure of the navigation is complex", wcag |-> ""],
      [ruleId |-> "image-alt",
       message |-> "Image has no alternative text", wcag |-> "WCAG 2.1 - 1.1.1"],
      [ruleId |-> "duplicate-id",
       message |-> "Element does not have text that is visible to screen readers",
       wcag |-> ""] }

DefaultRule == CHOOSE r \in ReportRules : r.ruleId = "duplicate-id"

\* The issues a scan can hand to buildReportPayload.
ScanIssueDomain ==
    { [impact |-> impact, ruleId |-> rule.ruleId, message |-> rule.message,
       wcag |-> rule.wcag] : impact \in Impacts, rule \in ReportRules }

\* String.prototype.includes
includes(s, sub) ==
    \E i \in 1..(Len(s) - Len(sub) + 1) : SubSeq(s, i, i + Len(sub) - 1) = sub

UpperCase == "ABCDEFGHIJKLMNOPQRSTUVWXYZ"
LowerCase == "abcdefghijklmnopqrstuvwxyz"

lowerChar(c) ==
    IF \E i \in 1..Len(UpperCase) : SubSeq(UpperCase, i, i) = c
    THEN LET i == CHOOSE k \in 1..Len(UpperCase) : SubSeq(UpperCase, k, k) = c
         IN  SubSeq(LowerCase, i, i)
    ELSE c

\* String.prototype.toLowerCase, character by character
RECURSIVE lowerChars(_)
lowerChars(s) ==
    IF Len(s) = 0 THEN s
    ELSE lowerChar(SubSeq(s, 1, 1)) \o lowerChars(SubSeq(s, 2, Len(s)))

\* toLowerCase of the strings that occur in issues, computed once
lowerCased ==
    [s \in Impacts \cup {rule.message : rule \in ReportRules}
                   \cup {rule.ruleId : rule \in ReportRules}
                   \cup {rule.wcag : rule \in ReportRules} |-> lowerChars(s)]

toLowerCase(s) == IF s \in DOMAIN lowerCased THEN lowerCased[s] ELSE lowerChars(s)

\* Weighted scoring: critical = -10, serious = -5, moderate = -2, minor = -1
WeightCritical == 10
WeightSerious == 5
WeightModerate == 2
WeightMinor == 1

Max(a, b) == IF a >= b THEN a ELSE b
Min(a, b) == IF a <= b THEN a ELSE b

\* overallScore: severity = issue.impact?.toLowerCase();
\* counted only if (severity && severityCounts.hasOwnProperty(severity))
scoreSeverity(issue) ==
    IF issue.impact = NoImpact THEN NoImpact ELSE toLowerCase(issue.impact)

\* issues.forEach(issue => { ... severityCounts[severity]++ })
scoreCount(issues, sev) ==
    Cardinality({i \in DOMAIN issues : scoreSeverity(issues[i]) = sev})

\* the subtraction written without its parentheses
weightedScoreNoParens(issues) ==
    100 - scoreCount(issues, "critical") * WeightCritical
        + scoreCount(issues, "serious") * WeightSerious
        + scoreCount(issues, "moderate") * WeightModerate
        + scoreCount(issues, "minor") * WeightMinor

weightedScore(issues) ==
    100 - ( scoreCount(issues, "critical") * WeightCritical
          + scoreCount(issues, "serious") * WeightSerious
          + scoreCount(issues, "moderate") * WeightModerate
          + scoreCount(issues, "minor") * WeightMinor )

\* the weighted score returned without Math.max / Math.min
overallScoreUnclamped(issues) ==
    IF Len(issues) = 0 THEN 100 ELSE weightedScore(issues)

overallScore(issues) ==
    IF Len(issues) = 0 THEN 100
    ELSE Max(0, Min(100, weightedScore(issues)))

\* groupIssues: severity = issue.impact?.toLowerCase() || 'moderate';
\* pushed to bySeverity[severity] if that group exists
groupSeverity(issue) ==
    IF issue.impact = NoImpact THEN "moderate" ELSE toLowerCase(issue.impact)

bySeverity(issues) ==
    [sev \in Severities |-> SelectSeq(issues, LAMBDA issue : groupSeverity(issue) = sev)]

\* issue.message?.toLowerCase() || '', and the same for ruleId and wcag
lowerMessage(issue) == toLowerCase(issue.message)
lowerRuleId(issue) == toLowerCase(issue.ruleId)
lowerWcag(issue) == toLowerCase(issue.wcag)

\* a.includes(k1) || a.includes(k2) || ...
includesAny(s, words) == \E w \in words : includes(s, w)

\* a missing impact weighted like a moderate one, as groupIssues groups it
impactWeightModerateDefault(issue) ==
    LET impact == IF issue.impact = NoImpact THEN NoImpact ELSE toLowerCase(issue.impact)
    IN  CASE impact = "critical" -> 4
          [] impact = "serious"  -> 3
          [] impact = "moderate" -> 2
          [] impact = "minor"    -> 1
          [] OTHER               -> 2

\* impactWeights[issue.impact?.toLowerCase()] || 1
impactWeight(issue) ==
    LET impact == IF issue.impact = NoImpact THEN NoImpact ELSE toLowerCase(issue.impact)
    IN  CASE impact = "critical" -> 4
          [] impact = "serious"  -> 3
          [] impact = "moderate" -> 2
          [] impact = "minor"    -> 1
          [] OTHER               -> 1

\* the if / else-if chain of the user impact bonus
matchesKeyboard(issue) ==
    \/ includesAny(lowerMessage(issue), {"keyboard", "focus"})
    \/ includes(lowerRuleId(issue), "keyboard")
matchesContrast(issue) ==
    \/ includesAny(lowerMessage(issue), {"contrast", "color"})
    \/ includesAny(lowerWcag(issue), {"1.4.3", "1.4.6"})
matchesForms(issue) == includesAny(lowerMessage(issue), {"form", "input", "label"})
matchesAria(issue) == includesAny(lowerMessage(issue), {"aria", "role"})
matchesLandmarks(issue) ==
    includesAny(lowerMessage(issue), {"landmark", "navigation", "main"})
matchesMedia(issue) == includesAny(lowerMessage(issue), {"image", "video", "audio"})

\* every matching bonus added up instead of the first one only
userImpactBonusSummed(issue) ==
      (IF matchesKeyboard(issue) THEN 2 ELSE 0)
    + (IF matchesContrast(issue) THEN 2 ELSE 0)
    + (IF matchesForms(issue) THEN 2 ELSE 0)
    + (IF matchesAria(issue) THEN 1 ELSE 0)
    + (IF matchesLandmarks(issue) THEN 1 ELSE 0)
    + (IF matchesMedia(issue) THEN 1 ELSE 0)

userImpactBonus(issue) ==
    IF matchesKeyboard(issue) THEN 2
    ELSE IF matchesContrast(issue) THEN 2
    ELSE IF matchesForms(issue) THEN 2
    ELSE IF matchesAria(issue) THEN 1
    ELSE IF matchesLandmarks(issue) THEN 1
    ELSE IF matchesMedia(issue) THEN 1
    ELSE 0

\* effort = 1; refactoring keywords -> 2; else major-change keywords -> 3
effort(issue) ==
    IF includesAny(lowerMessage(issue), {"structure", "semantic", "heading"}) THEN 2
    ELSE IF includesAny(lowerMessage(issue), {"navigation", "menu", "complex"}) THEN 3
    ELSE 1

\* Math.round of a product of integers
round(n) == n

computePriorityScore(issue) ==
    round((impactWeight(issue) + userImpactBonus(issue)) * (3 - effort(issue)))

\* the category tests, in the order of the if statements
Categories ==
    << "Keyboard Navigation", "Color & Contrast", "Forms & Controls",
       "ARIA & Semantics", "Landmarks & Structure", "Media & Images",
       "Headings & Titles", "Links & Navigation" >>

categoryMatches(c, issue) ==
    CASE c = "Keyboard Navigation" ->
            \/ includesAny(lowerMessage(issue), {"keyboard", "focus", "tab"})
            \/ includes(lowerRuleId(issue), "keyboard")
      [] c = "Color & Contrast" ->
            \/ includesAny(lowerMessage(issue), {"contrast", "color"})
            \/ includesAny(lowerWcag(issue), {"1.4.3", "1.4.6"})
      [] c = "Forms & Controls" ->
            includesAny(lowerMessage(issue), {"form", "input", "label", "button"})
      [] c = "ARIA & Semantics" ->
            includesAny(lowerMessage(issue), {"aria", "role", "semantic"})
      [] c = "Landmarks & Structure" ->
            includesAny(lowerMessage(issue), {"landmark", "navigation", "main", "header"})
      [] c = "Media & Images" ->
            includesAny(lowerMessage(issue), {"image", "alt", "video", "audio"})
      [] c = "Headings & Titles" ->
            includesAny(lowerMessage(issue), {"heading", "title", "page"})
      [] c = "Links & Navigation" ->
            includesAny(lowerMessage(issue), {"link", "href", "anchor"})
      [] OTHER -> FALSE

\* the ARIA test made before the forms test
categorizeIssueAriaFirst(issue) ==
    IF categoryMatches("Keyboard Navigation", issue) THEN "Keyboard Navigation"
    ELSE IF categoryMatches("Color & Contrast", issue) THEN "Color & Contrast"
    ELSE IF categoryMatches("ARIA & Semantics", issue) THEN "ARIA & Semantics"
    ELSE IF categoryMatches("Forms & Controls", issue) THEN "Forms & Controls"
    ELSE IF categoryMatches("Landmarks & Structure", issue) THEN "Landmarks & Structure"
    ELSE IF categoryMatches("Media & Images", issue) THEN "Media & Images"
    ELSE IF categoryMatches("Headings & Titles", issue) THEN "Headings & Titles"
    ELSE IF categoryMatches("Links & Navigation", issue) THEN "Links & Navigation"
    ELSE "Other"

categorizeIssue(issue) ==
    IF categoryMatches("Keyboard Navigation", issue) THEN "Keyboard Navigation"
    ELSE IF categoryMatches("Color & Contrast", issue) THEN "Color & Contrast"
    ELSE IF categoryMatches("Forms & Controls", issue) THEN "Forms & Controls"
    ELSE IF categoryMatches("ARIA & Semantics", issue) THEN "ARIA & Semantics"
    ELSE IF categoryMatches("Landmarks & Structure", issue) THEN "Landmarks & Structure"
    ELSE IF categoryMatches("Media & Images", issue) THEN "Media & Images"
    ELSE IF categoryMatches("Headings & Titles", issue) THEN "Headings & Titles"
    ELSE IF categoryMatches("Links & Navigation", issue) THEN "Links & Navigation"
    ELSE "Other"

\* computePriorityScore and categorizeIssue of every issue a scan can hold,
\* computed once
priorityScoreOf == [issue \in ScanIssueDomain |-> computePriorityScore(issue)]
categoryOf == [issue \in ScanIssueDomain |-> categorizeIssue(issue)]

\* scan.issues.map(issue => ({...issue, priorityScore, category, pageUrl}))
reportIssues(issues) ==
    [i \in DOMAIN issues |->
        [ impact        |-> issues[i].impact,
          ruleId        |-> issues[i].ruleId,
          message       |-> issues[i].message,
          wcag          |-> issues[i].wcag,
          priorityScore |-> priorityScoreOf[issues[i]],
          category      |-> categoryOf[issues[i]] ]]

\* Array.prototype.sort with (a, b) => b.priorityScore - a.priorityScore:
\* a stable sort, an element goes behind the ones that do not score lower
RECURSIVE insertByPriority(_, _)
insertByPriority(sorted, issue) ==
    IF Len(sorted) = 0 THEN <<issue>>
    ELSE IF Head(sorted).priorityScore >= issue.priorityScore
         THEN <<Head(sorted)>> \o insertByPriority(Tail(sorted), issue)
         ELSE <<issue>> \o sorted

RECURSIVE sortByPriority(_)
sortByPriority(issues) ==
    IF Len(issues) = 0 THEN <<>>
    ELSE insertByPriority(sortByPriority(SubSeq(issues, 1, Len(issues) - 1)),
                          issues[Len(issues)])

\* sortedIssues.filter(issue => issue.impact === 'critical').slice(0, 5)
TopIssuesShown == 5
topIssues(sortedIssues) ==
    LET critical == SelectSeq(sortedIssues, LAMBDA issue : issue.impact = "critical")
    IN  SubSeq(critical, 1, Min(TopIssuesShown, Len(critical)))

\* groupIssues(...).byCategory turned into counts
categoryCounts(issues) ==
    LET found == {issues[i].category : i \in DOMAIN issues}
    IN  [c \in found |-> Cardinality({i \in DOMAIN issues : issues[i].category = c})]

\* `ada-snapfix-${Date.now()}-${Math.random()...}`
reportIdOf(time, random) == <<"ada-snapfix", time, random>>

\* buildReportPayload: sortedIssues feeds topIssues only, the payload's
\* issues are reportIssues in the order of scan.issues
buildReportPayload(issues, time, random) ==
    LET annotated == reportIssues(issues)
        sortedIssues == sortByPriority(annotated)
    IN  [ totalIssues    |-> Len(issues),
          issues         |-> annotated,
          score          |-> overallScore(annotated),
          reportId       |-> reportIdOf(time, random),
          severityCounts |-> [sev \in Severities |-> Len(bySeverity(annotated)[sev])],
          categoryCounts |-> categoryCounts(annotated),
          topIssues      |-> topIssues(sortedIssues) ]

\* violation.nodes.map(node => ({... impact ...})): a rule violated on n
\* elements yields n issues carrying the violation's impact
MapViolation(impact, nodes, rule) ==
    /\ ~reportDone
    /\ violations < MaxViolations
    /\ violations' = violations + 1
    /\ scanIssues' = scanIssues \o
          [k \in 1..nodes |-> [impact |-> impact, ruleId |-> rule.ruleId,
                               message |-> rule.message, wcag |-> rule.wcag]]
    /\ UNCHANGED <<payload, reportDone, now, otherScored, rescored, rescoreDone>>

\* Math.random() of one invocation
Randoms == {0, 1}

BuildReport(random) ==
    /\ ~reportDone
    /\ payload' = buildReportPayload(scanIssues, now, random)
    /\ reportDone' = TRUE
    /\ now' = now + 1
    /\ UNCHANGED <<scanIssues, violations, otherScored, rescored, rescoreDone>>

\* buildReportPayload called for some other scan, between two reports of
\* the same scan
ScoreOther(otherIssues) ==
    /\ reportDone /\ ~rescoreDone
    /\ otherScored = <<>>
    /\ otherScored' = <<buildReportPayload(otherIssues, now, 0)>>
    /\ now' = now + 1
    /\ UNCHANGED <<scanIssues, violations, payload, reportDone, rescored, rescoreDone>>

\* a module-level cache answering with the payload built last
ScoreAgainCached(random) ==
    /\ reportDone /\ ~rescoreDone
    /\ rescored' = IF otherScored = <<>>
                   THEN buildReportPayload(scanIssues, now, random)
                   ELSE otherScored[1]
    /\ rescoreDone' = TRUE
    /\ now' = now + 1
    /\ UNCHANGED <<scanIssues, violations, payload, reportDone, otherScored>>

\* buildReportPayload called a second time for the same scan
ScoreAgain(random) ==
    /\ reportDone /\ ~rescoreDone
    /\ rescored' = buildReportPayload(scanIssues, now, random)
    /\ rescoreDone' = TRUE
    /\ now' = now + 1
    /\ UNCHANGED <<scanIssues, violations, payload, reportDone, otherScored>>

(***************************************************************************)
(* WCAG coverage of the enhanced-simple scan.                              *)
(***************************************************************************)
\* Define all WCAG 2.1 AA criteria
wcagCriteria ==
    << "1.1.1", "1.2.1", "1.2.2", "1.2.3", "1.2.4", "1.2.5", "1.3.1", "1.3.2",
       "1.3.3", "1.3.4", "1.3.5",
       "1.4.1", "1.4.2", "1.4.3", "1.4.4", "1.4.5", "1.4.10", "1.4.11", "1.4.12",
       "1.4.13",
       "2.1.1", "2.1.2", "2.1.3", "2.1.4", "2.2.1", "2.2.2", "2.3.1", "2.4.1",
       "2.4.2", "2.4.3", "2.4.4", "2.4.5", "2.4.6", "2.4.7",
       "2.5.1", "2.5.2", "2.5.3", "2.5.4", "2.5.5", "2.5.6",
       "3.1.1", "3.1.2", "3.2.1", "3.2.2", "3.2.3", "3.2.4", "3.3.1", "3.3.2",
       "3.3.3", "3.3.4", "3.3.5", "3.3.6", "3.3.7", "3.3.8",
       "4.1.1", "4.1.2", "4.1.3", "4.1.4" >>

\* wcagCriteria.forEach(criterion => allWCAG.add(criterion))
allWCAG == {wcagCriteria[k] : k \in DOMAIN wcagCriteria}

\* The wcag arrays of the issues the three analyzers produce: the static
\* analysis gives a level tag and a dotted criterion, axe-core gives the tags
\* of the violated rule that start with "wcag2", pa11y gives issue.wcag if set.
WcagArrays ==
    { <<"wcag2a", "1.1.1">>, <<"wcag2a", "2.4.2">>,
      <<"wcag2a", "wcag244">>, <<"wcag2a">>,
      <<"1.4.6">>, <<>> }

\* issue.wcag.forEach(wcag => { if (wcag.includes('.')) coveredWCAG.add(wcag) })
coveredWCAG(issues) ==
    UNION { { issues[i].wcag[k] : k \in { n \in DOMAIN issues[i].wcag :
                                              includes(issues[i].wcag[n], ".") } }
            : i \in DOMAIN issues }

\* Math.round(n / d * 100) for n >= 0, d > 0
roundPercent(n, d) == (200 * n + d) \div (2 * d)

calculateWCAGCoverage(issues) ==
    [ total      |-> Cardinality(allWCAG),
      covered    |-> Cardinality(coveredWCAG(issues)),
      percentage |-> roundPercent(Cardinality(coveredWCAG(issues)), Cardinality(allWCAG)) ]

\* one more issue in the list, and the coverage of the longer list
MeasureCoverage(wcag) ==
    /\ Len(coverageIssues) < MaxCovered
    /\ coverageIssues' = Append(coverageIssues, [wcag |-> wcag])
    /\ wcagCoverage' = calculateWCAGCoverage(coverageIssues')

(***************************************************************************)
(* The scan request handlers: handleRegularScan and handleStreamingScan of *)
(* the unified scan route, and POST of the quick scan route.               *)
(***************************************************************************)
ScanRouteHandlers == {"regular", "streaming"}
Handlers == ScanRouteHandlers \cup {"quick"}

\* The fallback chain of the unified scan route, in the order the code tries it.
Chain == <<"external-service", "standard", "minimal", "executable-path", "simple-scan">>
\* The quick scan launches one browser and has no fallback.
QuickChain == <<"sparticuz">>
LocalLaunches == {"standard", "minimal", "executable-path"}
BrowserStrategies == {"external-service", "sparticuz"} \cup LocalLaunches

chainOf(h) == IF h = "quick" THEN QuickChain ELSE Chain

\* while (!axeLoaded && retryCount < 3)
MaxAxeRetries == 3

\* What the deployment lets succeed: the remote endpoint being set and
\* reachable, the Chromium launch configurations that work on the platform,
\* and whether the plain fetch of the simple scan works.
Platforms(h) ==
    IF h = "quick"
    THEN [wsEndpoint : {FALSE}, remoteUp : {FALSE},
          launchable : {{}, {"sparticuz"}}, simpleOk : {FALSE}]
    ELSE [wsEndpoint : BOOLEAN, remoteUp : BOOLEAN,
          launchable : SUBSET LocalLaunches, simpleOk : BOOLEAN]

\* Whether the awaited call of a strategy resolves on this platform.
succeeds(s) ==
    CASE s = "external-service" -> platform.wsEndpoint /\ platform.remoteUp
      [] s = "simple-scan"      -> platform.simpleOk /\ includes(request.url, "://")
      [] OTHER                  -> s \in platform.launchable

\* The message of the error a failing strategy throws.
failureReason(s) ==
    CASE s = "external-service" ->
            IF platform.wsEndpoint THEN "connect ECONNREFUSED"
            ELSE "No external browser service configured"
      [] s = "standard"         -> "browserType.launch: Executable doesn't exist"
      [] s = "minimal"          -> "browserType.launch: Failed to launch chromium"
      [] s = "executable-path"  -> "browserType.launch: spawn ENOENT"
      [] s = "sparticuz"        -> "Failed to launch the browser process"
      [] OTHER                  -> "fetch failed"

\* Errors thrown once a browser is open.
ErrPageClosed == "Target page, context or browser has been closed"
ErrScriptTag == "page.addScriptTag: net::ERR_FAILED"
ErrAxeMissing == "Axe-core not loaded"
ErrNavTimeout == "Navigation timeout of 15000 ms exceeded"
ErrAllFailed == "Unable to launch browser and fallback scan failed"
ErrInvalidUrl == "Protocol error (Page.navigate): Cannot navigate to invalid URL"

\* errorMessage.includes('playwright') || includes('browser') || ... , on the
\* messages of the model
isPlaywrightError(msg) == msg \in {ErrPageClosed, ErrAllFailed}

\* quick scan: includes('browser') || 'executable' || 'timeout' || 'CSP' || 'navigation'
isBrowserError(msg) ==
    msg \in {ErrPageClosed, ErrNavTimeout, "Failed to launch the browser process"}

NoResponse == [status |-> 0]

\* the catch block of handleRegularScan
regularErrorResponse(msg) ==
    IF isPlaywrightError(msg)
    THEN [status |-> 503, error |-> "Full scan unavailable",
          details |-> "Playwright browser could not be launched on this platform. This is common on serverless environments.",
          type |-> "browser_launch_error", fallback |-> "simple"]
    ELSE [status |-> 500, error |-> "Failed to scan URL", details |-> msg,
          type |-> "general_error", fallback |-> "none"]

\* the catch block of the quick scan
quickErrorResponse(msg) ==
    [status |-> IF isBrowserError(msg) THEN 503 ELSE 500,
     error |-> "Quick scan failed", details |-> msg,
     type |-> IF isBrowserError(msg) THEN "browser_error" ELSE "general_error",
     fallback |-> "external"]

\* sendLog(message, type): one event enqueued on the stream; detail is the
\* error message interpolated into the text, if any
logEvent(type, message, detail) == [type |-> type, message |-> message, detail |-> detail]
ResultsEvent == [type |-> "results", message |-> "results", detail |-> ""]

\* the events a streaming handler enqueues; the other handlers only console.log
sendLogs(h, evs) == IF h = "streaming" THEN events \o evs ELSE events

\* one issue per violation, whatever the number of its nodes
flatMapNodesPerViolation(vs) ==
    [k \in 1..Len(vs) |->
        [ruleId |-> vs[k].id,
         severity |-> IF vs[k].impact = NoImpact THEN "moderate" ELSE vs[k].impact]]

\* violation.nodes.map(...) under violations.flatMap: one issue per affected node
RECURSIVE flatMapNodes(_)
flatMapNodes(vs) ==
    IF vs = <<>> THEN <<>>
    ELSE [k \in 1..Head(vs).nodes |->
             [ruleId |-> Head(vs).id,
              severity |-> IF Head(vs).impact = NoImpact THEN "moderate"
                           ELSE Head(vs).impact]]
         \o flatMapNodes(Tail(vs))

\* what axe.run may report for the page
AxeOutcomes ==
    { <<>>,
      <<[id |-> "image-alt", impact |-> "critical", nodes |-> 2],
        [id |-> "region", impact |-> NoImpact, nodes |-> 1]>>,
      <<[id |-> "link-name", impact |-> "serious", nodes |-> 3]>> }

\* the body of a full scan's result
fullResults(violationsFound, strategyName, scanType) ==
    [status |-> 200, totalIssues |-> Len(flatMapNodes(violationsFound)),
     axe |-> violationsFound,
     issues |-> flatMapNodes(violationsFound),
     launchStrategy |-> strategyName, scanType |-> scanType, note |-> "none"]

\* the fallback's result returned like a full scan's, with nothing saying
\* that the simple scan produced it
fallbackResultsUnmarked(simpleIssues) ==
    [status |-> 200, totalIssues |-> Len(simpleIssues), issues |-> simpleIssues,
     launchStrategy |-> launchStrategy, scanType |-> "full", note |-> "none"]

\* the body of the simple-scan fallback's result
fallbackResults(simpleIssues) ==
    [status |-> 200, totalIssues |-> Len(simpleIssues), issues |-> simpleIssues,
     launchStrategy |-> "fallback", scanType |-> "simple-fallback",
     note |-> "Full scan failed, using simple scan as fallback"]

handler == request.handler

\* The url of the request body: absent, a string that is no URL, a URL.
Urls == {"", "example", "https://example.com"}

\* !url is false
urlGiven == request.url # ""

\* page.goto and fetch take the string as a URL
navigable(url) == includes(url, "://")
current == chainOf(handler)[strategy]

attempt(s, outcome, reason) == [strategy |-> s, outcome |-> outcome, reason |-> reason]

\* the assignment after a successful connect or launch left out
launchStrategyKept(s, was) == was

\* launchStrategy after strategy s has produced a browser
\* (assigned on success for the first two, before the attempt for the others)
launchStrategyOnSuccess(s, was) ==
    CASE s = "external-service" -> "external-service"
      [] s = "standard"         -> "standard"
      [] OTHER                  -> was

\* launchStrategy in the catch block that follows the failure of strategy s
launchStrategyOnFailure(s, was) ==
    CASE s = "standard" -> "minimal"
      [] s = "minimal"  -> "executable-path"
      [] OTHER          -> was

\* if (!url) return 400
RejectMissingUrl ==
    /\ pc = "start" /\ ~urlGiven
    /\ response' = [status |-> 400, error |-> "URL is required"]
    /\ pc' = "done"
    /\ UNCHANGED <<request, platform, strategy, launchStrategy, browser, inFlight,
                   attempts, retryCount, axeLoaded, gotoOutcome, axeRan, events,
                   streamClosed>>

\* the request is accepted and the first strategy is next
AcceptRequest ==
    /\ pc = "start" /\ urlGiven
    /\ pc' = "try"
    /\ events' = sendLogs(handler, <<logEvent("log", "Starting enhanced scan for URL", "")>>)
    /\ UNCHANGED <<request, platform, strategy, launchStrategy, browser, inFlight,
                   attempts, retryCount, axeLoaded, gotoOutcome, axeRan, response,
                   streamClosed>>

\* Strategy 1 without PLAYWRIGHT_BROWSER_WS_ENDPOINT: the handler throws
\* before any connection is started, and the catch moves on to strategy 2.
ExternalNotConfigured ==
    /\ pc = "try" /\ current = "external-service" /\ ~platform.wsEndpoint
    /\ attempts' = Append(attempts, attempt(current, "failed", failureReason(current)))
    /\ strategy' = strategy + 1
    /\ events' = sendLogs(handler,
          <<logEvent("log", "External browser service failed, trying local Playwright...", "")>>)
    /\ UNCHANGED <<request, platform, pc, launchStrategy, browser, inFlight,
                   retryCount, axeLoaded, gotoOutcome, axeRan, response, streamClosed>>

\* the awaited call of the current strategy missing its await
BeginAttemptNoAwait ==
    /\ pc = "try"
    /\ ~(current = "external-service" /\ ~platform.wsEndpoint)
    /\ inFlight' = inFlight \cup {current}
    /\ strategy' = IF strategy < Len(chainOf(handler)) THEN strategy + 1 ELSE strategy
    /\ pc' = IF strategy < Len(chainOf(handler)) THEN "try" ELSE "await"
    /\ UNCHANGED <<request, platform, launchStrategy, browser, attempts, retryCount,
                   axeLoaded, gotoOutcome, axeRan, response, events, streamClosed>>

\* browser = await chromium.connect(...) / chromium.launch(...) /
\* puppeteer.launch(...); simpleResults = await performSimpleScan(url):
\* the call of the current strategy is started and awaited
BeginAttempt ==
    /\ pc = "try"
    /\ ~(current = "external-service" /\ ~platform.wsEndpoint)
    /\ inFlight' = inFlight \cup {current}
    /\ pc' = "await"
    /\ events' = sendLogs(handler,
          CASE current = "external-service" ->
                  <<logEvent("log", "Connecting to external browser service...", "")>>
            [] current = "simple-scan" ->
                  <<logEvent("log", "Initiating simple scan fallback...", "")>>
            [] OTHER -> <<>>)
    /\ UNCHANGED <<request, platform, strategy, launchStrategy, browser, attempts,
                   retryCount, axeLoaded, gotoOutcome, axeRan, response, streamClosed>>

\* the awaited connect or launch resolves with a browser
BrowserAcquired ==
    /\ pc = "await" /\ current \in BrowserStrategies /\ succeeds(current)
    /\ inFlight' = inFlight \ {current}
    /\ attempts' = Append(attempts, attempt(current, "succeeded", ""))
    /\ browser' = "open"
    /\ launchStrategy' = launchStrategyOnSuccess(current, launchStrategy)
    /\ pc' = "newPage"
    /\ events' = sendLogs(handler,
          CASE current = "external-service" ->
                  <<logEvent("log", "Connected to external browser service successfully", "")>>
            [] OTHER ->
                  <<logEvent("log", "Browser launched successfully", "")>>)
    /\ UNCHANGED <<request, platform, strategy, retryCount, axeLoaded, gotoOutcome,
                   axeRan, response, streamClosed>>

\* the awaited connect or launch of the unified route rejects: the catch
\* block logs and the next strategy of the chain is tried
BrowserAttemptFails ==
    /\ pc = "await" /\ handler \in ScanRouteHandlers
    /\ current \in BrowserStrategies /\ ~succeeds(current)
    /\ inFlight' = inFlight \ {current}
    /\ attempts' = Append(attempts, attempt(current, "failed", failureReason(current)))
    /\ launchStrategy' = launchStrategyOnFailure(current, launchStrategy)
    /\ strategy' = strategy + 1
    /\ pc' = "try"
    /\ events' = sendLogs(handler,
          CASE current = "external-service" ->
                  <<logEvent("error", "Failed to connect to external browser service",
                             failureReason(current)),
                    logEvent("log", "External browser service failed, trying local Playwright...", "")>>
            [] current = "standard" ->
                  <<logEvent("log", "Standard launch failed, trying minimal config...", "")>>
            [] current = "minimal" ->
                  <<logEvent("log", "Minimal launch failed, trying with executable path...", "")>>
            [] OTHER ->
                  <<logEvent("error", "All browser launch strategies failed, falling back to simple scan...", "")>>)
    /\ UNCHANGED <<request, platform, browser, retryCount, axeLoaded, gotoOutcome,
                   axeRan, response, streamClosed>>

\* issues the simple scan may return
SimpleOutcomes == { <<>>, <<[ruleId |-> "missing-alt-text", severity |-> "critical"]>> }

\* performSimpleScan resolves: the fallback results are returned / streamed
SimpleScanSucceeds(simpleIssues) ==
    /\ pc = "await" /\ current = "simple-scan" /\ succeeds(current)
    /\ inFlight' = inFlight \ {current}
    /\ attempts' = Append(attempts, attempt(current, "succeeded", ""))
    /\ response' = fallbackResults(simpleIssues)
    /\ events' = sendLogs(handler,
          <<logEvent("log", "Simple scan completed successfully", ""),
            ResultsEvent,
            logEvent("success", "Scan completed with fallback method", "")>>)
    /\ streamClosed' = IF handler = "streaming" THEN streamClosed + 1 ELSE streamClosed
    /\ pc' = "done"
    /\ UNCHANGED <<request, platform, strategy, launchStrategy, browser, retryCount,
                   axeLoaded, gotoOutcome, axeRan>>

\* performSimpleScan rejects: regular throws 'Unable to launch browser and
\* fallback scan failed' into its catch block; streaming logs and closes
SimpleScanFails ==
    /\ pc = "await" /\ current = "simple-scan" /\ ~succeeds(current)
    /\ inFlight' = inFlight \ {current}
    /\ attempts' = Append(attempts, attempt(current, "failed", failureReason(current)))
    /\ response' = IF handler = "regular" THEN regularErrorResponse(ErrAllFailed)
                   ELSE response
    /\ events' = sendLogs(handler,
          <<logEvent("error", "Fallback scan also failed", failureReason(current))>>)
    /\ streamClosed' = IF handler = "streaming" THEN streamClosed + 1 ELSE streamClosed
    /\ pc' = "done"
    /\ UNCHANGED <<request, platform, strategy, launchStrategy, browser, retryCount,
                   axeLoaded, gotoOutcome, axeRan>>

\* quick scan: puppeteer.launch rejects into the catch block
QuickLaunchFails ==
    /\ pc = "await" /\ handler = "quick" /\ ~succeeds(current)
    /\ inFlight' = inFlight \ {current}
    /\ attempts' = Append(attempts, attempt(current, "failed", failureReason(current)))
    /\ response' = quickErrorResponse(failureReason(current))
    /\ pc' = "done"
    /\ UNCHANGED <<request, platform, strategy, launchStrategy, browser, retryCount,
                   axeLoaded, gotoOutcome, axeRan, events, streamClosed>>

\* An error thrown while the browser is open reaches the handler's outer
\* catch block: regular and quick answer with an error body, streaming logs
\* the error and closes the stream. None of the three closes the browser.
catchResponse(msg) ==
    CASE handler = "regular" -> regularErrorResponse(msg)
      [] handler = "quick"   -> quickErrorResponse(msg)
      [] OTHER               -> response

Throws(msg, before) ==
    /\ response' = catchResponse(msg)
    /\ events' = sendLogs(handler, before \o <<logEvent("error", "Enhanced scan error", msg)>>)
    /\ streamClosed' = IF handler = "streaming" THEN streamClosed + 1 ELSE streamClosed
    /\ browser' = browser
    /\ pc' = "done"

\* const page = await browser.newPage(); page.setViewportSize / setUserAgent
NewPageOk ==
    /\ pc = "newPage"
    /\ pc' = "goto"
    /\ events' = sendLogs(handler, <<logEvent("log", "Navigating to URL...", "")>>)
    /\ UNCHANGED <<request, platform, strategy, launchStrategy, browser, inFlight,
                   attempts, retryCount, axeLoaded, gotoOutcome, axeRan, response,
                   streamClosed>>

NewPageThrows ==
    /\ pc = "newPage"
    /\ Throws(ErrPageClosed, <<>>)
    /\ UNCHANGED <<request, platform, strategy, launchStrategy, inFlight, attempts,
                   retryCount, axeLoaded, gotoOutcome, axeRan>>

\* await page.goto(url, {waitUntil, timeout}) resolves
GotoOk ==
    /\ pc = "goto" /\ navigable(request.url)
    /\ gotoOutcome' = "loaded"
    /\ pc' = "inject"
    /\ events' = sendLogs(handler, <<logEvent("log", "Page loaded successfully", "")>>)
    /\ UNCHANGED <<request, platform, strategy, launchStrategy, browser, inFlight,
                   attempts, retryCount, axeLoaded, axeRan, response, streamClosed>>

\* the navigation wait of a strategy handled as that strategy's failure:
\* the browser is released and the next strategy of the chain is tried
gotoTimeoutFallsBack ==
    /\ browser' = "closed"
    /\ strategy' = Min(strategy + 1, Len(chainOf(handler)))
    /\ pc' = "try"
    /\ events' = events
    /\ UNCHANGED <<response, streamClosed>>

\* unified route: catch (error) { 'Page load timeout, continuing with
\* current state...' }, and the handler goes on to inject axe-core
gotoTimeoutContinues ==
    /\ pc' = "inject"
    /\ events' = sendLogs(handler,
          <<logEvent("log", "Page load timeout, continuing with current state...", "")>>)
    /\ UNCHANGED <<strategy, browser, response, streamClosed>>

\* await page.goto(...) exceeds its timeout
GotoTimeout ==
    /\ pc = "goto" /\ navigable(request.url)
    /\ gotoOutcome' = "timeout"
    /\ IF handler \in ScanRouteHandlers
       THEN gotoTimeoutContinues
       ELSE Throws(ErrNavTimeout, <<>>) /\ UNCHANGED strategy
    /\ UNCHANGED <<request, platform, launchStrategy, inFlight, attempts, retryCount,
                   axeLoaded, axeRan>>

\* await page.goto(...) rejects a string that is no URL: the unified route
\* catches it like a timeout, the quick scan lets it reach its catch block
GotoRejects ==
    /\ pc = "goto" /\ ~navigable(request.url)
    /\ gotoOutcome' = "rejected"
    /\ IF handler \in ScanRouteHandlers
       THEN gotoTimeoutContinues
       ELSE Throws(ErrInvalidUrl, <<>>) /\ UNCHANGED strategy
    /\ UNCHANGED <<request, platform, launchStrategy, inFlight, attempts, retryCount,
                   axeLoaded, axeRan>>

\* await page.addScriptTag({url: axe.min.js}); the quick scan then waits 1 s
InjectOk ==
    /\ pc = "inject"
    /\ pc' = IF handler = "quick" THEN "evaluate" ELSE "waitAxe"
    /\ events' = sendLogs(handler, <<logEvent("log", "Injecting axe-core...", "")>>)
    /\ UNCHANGED <<request, platform, strategy, launchStrategy, browser, inFlight,
                   attempts, retryCount, axeLoaded, gotoOutcome, axeRan, response,
                   streamClosed>>

InjectThrows ==
    /\ pc = "inject"
    /\ Throws(ErrScriptTag, <<logEvent("log", "Injecting axe-core...", "")>>)
    /\ UNCHANGED <<request, platform, strategy, launchStrategy, inFlight, attempts,
                   retryCount, axeLoaded, gotoOutcome, axeRan>>

\* page.waitForFunction(() => typeof window.axe !== 'undefined') resolves
WaitAxeLoaded ==
    /\ pc = "waitAxe" /\ ~axeLoaded /\ retryCount < MaxAxeRetries
    /\ axeLoaded' = TRUE
    /\ pc' = "evaluate"
    /\ events' = sendLogs(handler, <<logEvent("log", "Axe-core injected successfully", "")>>)
    /\ UNCHANGED <<request, platform, strategy, launchStrategy, browser, inFlight,
                   attempts, retryCount, gotoOutcome, axeRan, response, streamClosed>>

\* page.waitForFunction times out: retryCount++, wait 1 s, loop again; after
\* the last retry regular goes on to evaluate, streaming gives up: it logs
\* the error, closes the browser and closes the stream (if (!axeLoaded) ...)
WaitAxeTimeout ==
    /\ pc = "waitAxe" /\ ~axeLoaded /\ retryCount < MaxAxeRetries
    /\ retryCount' = retryCount + 1
    /\ LET last == retryCount + 1 >= MaxAxeRetries
           retry == logEvent("log", "Axe-core load attempt failed, retrying...", "")
       IN  IF ~last
           THEN /\ pc' = "waitAxe"
                /\ events' = sendLogs(handler, <<retry>>)
                /\ UNCHANGED <<browser, streamClosed>>
           ELSE IF handler = "streaming"
           THEN /\ pc' = "done"
                /\ events' = sendLogs(handler,
                      <<retry, logEvent("error", "Failed to load axe-core after 3 attempts", "")>>)
                /\ browser' = "closed"
                /\ streamClosed' = streamClosed + 1
           ELSE /\ pc' = "evaluate"
                /\ events' = events
                /\ UNCHANGED <<browser, streamClosed>>
    /\ UNCHANGED <<request, platform, strategy, launchStrategy, inFlight, attempts,
                   axeLoaded, gotoOutcome, axeRan, response>>

\* axeResults = await page.evaluate(axe.run ...) resolves; then
\* await browser.close(), the issues are mapped and the results returned
EvaluateOk(violationsFound) ==
    /\ pc = "evaluate"
    /\ axeRan' = TRUE
    /\ browser' = "closed"
    /\ response' = IF handler = "quick"
                   THEN fullResults(violationsFound, "none", "quick")
                   ELSE fullResults(violationsFound, launchStrategy, "full")
    /\ events' = sendLogs(handler,
          <<logEvent("log", "Running axe-core analysis...", ""),
            logEvent("log", "Browser closed successfully", ""),
            logEvent("log", "Processing results...", ""),
            logEvent("success", "Scan completed successfully", ""),
            ResultsEvent>>)
    /\ streamClosed' = IF handler = "streaming" THEN streamClosed + 1 ELSE streamClosed
    /\ pc' = "done"
    /\ UNCHANGED <<request, platform, strategy, launchStrategy, inFlight, attempts,
                   retryCount, axeLoaded, gotoOutcome>>

\* page.evaluate rejects: axe is undefined in the page ('Axe-core not
\* loaded'), or the page is gone
EvaluateThrows(msg) ==
    /\ pc = "evaluate"
    /\ msg = ErrAxeMissing => ~axeLoaded
    /\ axeRan' = TRUE
    /\ Throws(msg, <<logEvent("log", "Running axe-core analysis...", "")>>)
    /\ UNCHANGED <<request, platform, strategy, launchStrategy, inFlight, attempts,
                   retryCount, axeLoaded, gotoOutcome>>

(***************************************************************************)
(* POST of the enhanced-simple scan route.                                 *)
(***************************************************************************)
\* What analyzeStaticHTML may find.
StaticOutcomes ==
    { <<>>,
      <<[ruleId |-> "image-alt", selector |-> "img", wcag |-> <<"wcag2a", "1.1.1">>,
         severity |-> "critical", source |-> "static-analysis"]>>,
      <<[ruleId |-> "image-alt", selector |-> "img", wcag |-> <<"wcag2a", "1.1.1">>,
         severity |-> "critical", source |-> "static-analysis"],
        [ruleId |-> "document-title", selector |-> "title", wcag |-> <<"wcag2a", "2.4.2">>,
         severity |-> "critical", source |-> "static-analysis"]>> }

\* What axe.run may report, mapped to issues.
EnhancedAxeOutcomes ==
    { <<>>,
      <<[ruleId |-> "image-alt", selector |-> "img", wcag |-> <<"wcag2a">>,
         severity |-> "critical", source |-> "axe-core"]>>,
      <<[ruleId |-> "image-alt", selector |-> "img", wcag |-> <<"wcag2a">>,
         severity |-> "critical", source |-> "axe-core"],
        [ruleId |-> "link-name", selector |-> "a", wcag |-> <<"wcag2a", "wcag244">>,
         severity |-> "moderate", source |-> "axe-core"]>> }

\* What runPa11yAnalysis may resolve with.
Pa11yOutcomes ==
    { <<>>,
      <<[ruleId |-> "WCAG2AA.Principle1.Guideline1_1.1_1_1.H37", selector |-> "img",
         wcag |-> <<>>, severity |-> "critical", source |-> "pa11y"]>>,
      <<[ruleId |-> "WCAG2AA.Principle1.Guideline1_1.1_1_1.H37", selector |-> "img",
         wcag |-> <<>>, severity |-> "critical", source |-> "pa11y"],
        [ruleId |-> "link-name", selector |-> "a", wcag |-> <<>>,
         severity |-> "minor", source |-> "pa11y"]>> }

\* How the fetch of the page ends.
FetchOutcomes == {"ok", "rejected", "not-ok", "short-html"}

fetchError(outcome) ==
    CASE outcome = "rejected"   -> "Failed to fetch URL: fetch failed"
      [] outcome = "not-ok"     -> "HTTP 404: Not Found"
      [] outcome = "short-html" -> "Received empty or invalid HTML content"

\* the outer catch block
enhancedErrorResponse(msg) ==
    [status |-> 500, error |-> "Enhanced simple scan failed", details |-> msg,
     type |-> "enhanced_scan_error"]

countSeverity(issues, sev) ==
    Len(SelectSeq(issues, LAMBDA issue : issue.severity = sev))

\* allIssues, deduplicatedIssues, the statistics and the result
enhancedResult(static, axe, pa11y) ==
    LET combined == static \o axe \o pa11y
        unique == deduplicateIssues(combined)
    IN  [ status |-> 200, mode |-> "enhanced-simple", success |-> TRUE,
          issues |-> unique,
          totalIssues |-> Len(unique),
          issuesBySource |-> [ axe |-> Len(axe), pa11y |-> Len(pa11y),
                               static |-> Len(static) ],
          issuesBySeverity |-> [ critical |-> countSeverity(unique, "critical"),
                                 moderate |-> countSeverity(unique, "moderate"),
                                 minor |-> countSeverity(unique, "minor") ],
          wcagCoverage |-> calculateWCAGCoverage(unique) ]

\* if (!url) return 400
EnhancedRejectMissingUrl ==
    /\ enhancedPc = "start" /\ enhancedUrl = ""
    /\ enhancedResponse' = [status |-> 400, error |-> "URL is required"]
    /\ enhancedPc' = "done"
    /\ UNCHANGED <<enhancedUrl, fetched, staticIssues, axeIssues, pa11yIssues,
                   analyzerFailed>>

\* response = await fetch(url, ...); the checks of response.ok and of the
\* length of the html; a string that is no URL makes fetch reject
EnhancedFetch(outcome) ==
    /\ enhancedPc = "start" /\ enhancedUrl # ""
    /\ navigable(enhancedUrl) \/ outcome = "rejected"
    /\ fetched' = TRUE
    /\ IF outcome = "ok"
       THEN enhancedPc' = "static" /\ UNCHANGED enhancedResponse
       ELSE /\ enhancedPc' = "done"
            /\ enhancedResponse' = enhancedErrorResponse(fetchError(outcome))
    /\ UNCHANGED <<enhancedUrl, staticIssues, axeIssues, pa11yIssues, analyzerFailed>>

\* const staticAnalysis = analyzeStaticHTML(html, url)
EnhancedStaticOk(found) ==
    /\ enhancedPc = "static"
    /\ staticIssues' = found
    /\ enhancedPc' = "register"
    /\ UNCHANGED <<enhancedUrl, fetched, axeIssues, pa11yIssues, analyzerFailed,
                   enhancedResponse>>

\* analyzeStaticHTML throws: nothing but the outer catch block is around it
EnhancedStaticThrows ==
    /\ enhancedPc = "static"
    /\ analyzerFailed' = analyzerFailed \cup {"static-analysis"}
    /\ enhancedResponse' = enhancedErrorResponse("static analysis failed")
    /\ enhancedPc' = "done"
    /\ UNCHANGED <<enhancedUrl, fetched, staticIssues, axeIssues, pa11yIssues>>

\* try { registerCustomRules() } catch (error) { console.warn(...) }
EnhancedRegisterRules(throws) ==
    /\ enhancedPc = "register"
    /\ analyzerFailed' = IF throws THEN analyzerFailed \cup {"custom-rules"}
                         ELSE analyzerFailed
    /\ enhancedPc' = "axe"
    /\ UNCHANGED <<enhancedUrl, fetched, staticIssues, axeIssues, pa11yIssues,
                   enhancedResponse>>

\* const axeResults = await axe.run(document, ...), mapped to axeIssues
EnhancedAxeOk(found) ==
    /\ enhancedPc = "axe"
    /\ axeIssues' = found
    /\ enhancedPc' = "pa11y"
    /\ UNCHANGED <<enhancedUrl, fetched, staticIssues, pa11yIssues, analyzerFailed,
                   enhancedResponse>>

\* axe.run rejects: nothing but the outer catch block is around it
EnhancedAxeThrows ==
    /\ enhancedPc = "axe"
    /\ analyzerFailed' = analyzerFailed \cup {"axe-core"}
    /\ enhancedResponse' = enhancedErrorResponse("axe.run failed")
    /\ enhancedPc' = "done"
    /\ UNCHANGED <<enhancedUrl, fetched, staticIssues, axeIssues, pa11yIssues>>

\* the pa11y failure leaving its try block and reaching the outer catch
EnhancedPa11yFailsUncaught ==
    /\ enhancedPc = "pa11y"
    /\ analyzerFailed' = analyzerFailed \cup {"pa11y"}
    /\ enhancedResponse' = enhancedErrorResponse("Pa11y analysis failed")
    /\ enhancedPc' = "done"
    /\ UNCHANGED <<enhancedUrl, fetched, staticIssues, axeIssues, pa11yIssues>>

\* pa11y(url, ...) rejects: runPa11yAnalysis catches and returns no issues
\* (and the route's own try / catch leaves pa11yIssues = []); the handler
\* goes on to combine, deduplicate and answer
EnhancedPa11yFails ==
    /\ enhancedPc = "pa11y"
    /\ analyzerFailed' = analyzerFailed \cup {"pa11y"}
    /\ enhancedResponse' = enhancedResult(staticIssues, axeIssues, <<>>)
    /\ enhancedPc' = "done"
    /\ UNCHANGED <<enhancedUrl, fetched, staticIssues, axeIssues, pa11yIssues>>

\* pa11yResult = await runPa11yAnalysis(url) resolves; the handler combines,
\* deduplicates and answers
EnhancedPa11yOk(found) ==
    /\ enhancedPc = "pa11y"
    /\ pa11yIssues' = found
    /\ enhancedResponse' = enhancedResult(staticIssues, axeIssues, found)
    /\ enhancedPc' = "done"
    /\ UNCHANGED <<enhancedUrl, fetched, staticIssues, axeIssues, analyzerFailed>>

(***************************************************************************)
(* The static checks: analyzeStaticHTML, the regex checks of               *)
(* performSimpleScan and the custom heading-order rule.                    *)
(***************************************************************************)
MaxHeadings == 3      \* headings of one page

HeadingLevels == 1..6
Viewports == {"", "width=device-width", "width=device-width, user-scalable=no"}
FieldTags == {"input", "textarea"}
\* type attribute of a field, "" when absent
FieldTypes == {"", "text", "email", "number"}
TextLikeTypes == {"text", "email", "password", "search", "tel", "url"}

\* A form field as the checks see it: its attributes present or not, and
\* whether a label[for=id] exists for its id.
Fields ==
    { f \in [tag : FieldTags, id : BOOLEAN, labelFor : BOOLEAN, ariaLabel : BOOLEAN,
             ariaLabelledby : BOOLEAN, title : BOOLEAN, placeholder : BOOLEAN,
             type : FieldTypes] :
        /\ f.labelFor => f.id
        /\ f.tag = "textarea" => f.type = "" }

Images == [alt : BOOLEAN, role : {"", "presentation"}, ariaHidden : {"", "true"}]
LinkTexts == {"pricing", "read more"}
TabIndexes == {0, 2}
AriaExpandedValues == {"true", "yes"}
Roles == {"button", "fancy"}
Forms == [hasSubmitButton : BOOLEAN]

\* a page every check passes
basePage ==
    [title |-> TRUE, language |-> TRUE, viewport |-> "width=device-width",
     hasSkipLink |-> TRUE, imgs |-> <<>>, fields |-> <<>>, links |-> <<>>,
     tabindex |-> <<>>, ariaExpanded |-> <<>>, roles |-> <<>>, headings |-> <<>>,
     main |-> TRUE, nav |-> TRUE, footer |-> TRUE, forms |-> <<>>]

upTo1(S) == {<<>>} \cup { <<x>> : x \in S }

HeadingSeqs ==
    UNION { [1..n -> [level : HeadingLevels, text : {"Intro"}]] : n \in 0..MaxHeadings }

\* The pages analysed: the base page varied in its head, in one form field,
\* in its headings, in its other elements, or in its landmarks and forms.
Pages ==
    { [basePage EXCEPT !.title = t, !.language = l, !.viewport = v, !.hasSkipLink = k] :
        t \in BOOLEAN, l \in BOOLEAN, v \in Viewports, k \in BOOLEAN }
    \cup { [basePage EXCEPT !.fields = <<f>>, !.forms = <<[hasSubmitButton |-> TRUE]>>] :
             f \in Fields }
    \cup { [basePage EXCEPT !.headings = hs] : hs \in HeadingSeqs }
    \cup { [basePage EXCEPT !.imgs = i, !.links = a, !.tabindex = t,
                            !.ariaExpanded = e, !.roles = r] :
             i \in upTo1(Images), a \in upTo1(LinkTexts), t \in upTo1(TabIndexes),
             e \in upTo1(AriaExpandedValues), r \in upTo1(Roles) }
    \cup { [basePage EXCEPT !.main = m, !.nav = n, !.footer = c, !.forms = fs,
                            !.headings = hs] :
             m \in BOOLEAN, n \in BOOLEAN, c \in BOOLEAN, fs \in upTo1(Forms),
             hs \in { <<>>, <<[level |-> 1, text |-> ""]>> } }

staticIssue(selector, ruleId, wcag, severity) ==
    [selector |-> selector, ruleId |-> ruleId, wcag |-> <<"wcag2a", wcag>>,
     severity |-> severity, source |-> "static-analysis"]

\* $(element).toString(): the element's markup
headingHtml(h) ==
    LET tag == <<"h1", "h2", "h3", "h4", "h5", "h6">>[h.level]
    IN  "<" \o tag \o ">" \o h.text \o "</" \o tag \o ">"

\* the missing title reported as moderate
checkTitleModerate(p) ==
    IF ~p.title THEN <<staticIssue("title", "document-title", "2.4.2", "moderate")>> ELSE <<>>

\* 1. Missing title
checkTitle(p) ==
    IF ~p.title THEN <<staticIssue("title", "document-title", "2.4.2", "critical")>> ELSE <<>>

\* 2. Missing language attribute
checkLanguage(p) ==
    IF ~p.language THEN <<staticIssue("html", "html-has-lang", "3.1.1", "critical")>> ELSE <<>>

\* 3. Missing viewport meta tag, or one that disables user scaling
checkViewport(p) ==
    IF p.viewport = ""
    THEN <<staticIssue("meta[name=viewport]", "meta-viewport", "1.4.4", "moderate")>>
    ELSE IF includes(p.viewport, "user-scalable=no")
    THEN <<staticIssue("meta[name=viewport]", "meta-viewport-scale", "1.4.4", "critical")>>
    ELSE <<>>

\* 4. Missing skip link
checkSkipLink(p) ==
    IF ~p.hasSkipLink THEN <<staticIssue("body", "skip-link", "2.4.1", "moderate")>> ELSE <<>>

\* 5. Images without alt text, decorative ones skipped
checkImages(p) ==
    (LET failing == SelectSeq(p.imgs,
             LAMBDA img : ~(img.role = "presentation" \/ img.role = "none"
                            \/ img.ariaHidden = "true") /\ ~img.alt)
     IN  [k \in 1..Len(failing) |-> staticIssue("img", "image-alt", "1.1.1", "critical")])

\* let hasLabel: a label[for=id], else aria-label / aria-labelledby / title,
\* else a placeholder on a field whose type attribute is a text-like one
hasLabel(f) ==
    IF f.id /\ f.labelFor THEN TRUE
    ELSE IF f.ariaLabel \/ f.ariaLabelledby \/ f.title THEN TRUE
    ELSE IF f.type \in TextLikeTypes
    THEN f.placeholder
    ELSE FALSE

\* 6. Form fields without labels
checkFields(p) ==
    (LET failing == SelectSeq(p.fields, LAMBDA f : ~hasLabel(f))
     IN  [k \in 1..Len(failing) |->
             staticIssue(failing[k].tag, "form-field-labels", "1.3.1", "critical")])

vagueTexts ==
    {"click here", "read more", "more", "learn more", "here", "this", "that", "link",
     "click", "go", "continue", "next", "previous", "back", "forward", "submit",
     "send", "ok", "yes", "no"}

\* 7. Vague link text
checkLinks(p) ==
    (LET failing == SelectSeq(p.links, LAMBDA text : includesAny(text, vagueTexts))
     IN  [k \in 1..Len(failing) |-> staticIssue(failing[k], "link-name-clarity", "2.4.4", "moderate")])

\* 8. Positive tabindex values
checkTabindex(p) ==
    (LET failing == SelectSeq(p.tabindex, LAMBDA t : t > 0)
     IN  [k \in 1..Len(failing) |-> staticIssue("[tabindex]", "no-positive-tabindex", "2.4.3", "moderate")])

\* 9. Invalid aria-expanded values
checkAriaExpanded(p) ==
    (LET failing == SelectSeq(p.ariaExpanded, LAMBDA v : v \notin {"true", "false"})
     IN  [k \in 1..Len(failing) |-> staticIssue("[aria-expanded]", "aria-expanded-boolean", "4.1.1", "moderate")])

validRoles ==
    {"alert", "alertdialog", "application", "article", "banner", "button", "cell",
     "checkbox", "columnheader", "combobox", "complementary", "contentinfo",
     "definition", "dialog", "directory", "document", "feed", "figure", "form",
     "grid", "gridcell", "group", "heading", "img", "link", "list", "listbox",
     "listitem", "log", "main", "marquee", "math", "menu", "menubar", "menuitem",
     "meter", "navigation", "none", "note", "option", "presentation", "progressbar",
     "radio", "radiogroup", "region", "row", "rowgroup", "rowheader", "scrollbar",
     "search", "searchbox", "separator", "slider", "spinbutton", "status", "switch",
     "tab", "table", "tablist", "tabpanel", "term", "textbox", "timer", "toolbar",
     "tooltip", "tree", "treegrid", "treeitem"}

\* 10. Invalid ARIA roles
checkRoles(p) ==
    (LET failing == SelectSeq(p.roles, LAMBDA r : r \notin validRoles)
     IN  [k \in 1..Len(failing) |-> staticIssue("[role]", "aria-role-valid", "4.1.1", "moderate")])

\* the positions i >= 2 whose heading is more than one level below its predecessor
skips(headings) ==
    { i \in 2..Len(headings) : headings[i].level > headings[i - 1].level + 1 }

\* 11. Heading hierarchy issues, each on the later heading
RECURSIVE headingOrderFrom(_, _)
headingOrderFrom(headings, i) ==
    IF i > Len(headings) THEN <<>>
    ELSE (IF headings[i].level > headings[i - 1].level + 1
          THEN <<staticIssue(headingHtml(headings[i]), "heading-order", "1.3.1", "moderate")>>
          ELSE <<>>)
         \o headingOrderFrom(headings, i + 1)

checkHeadingOrder(p) == headingOrderFrom(p.headings, 2)

\* 12.-14. Missing main, navigation and contentinfo landmarks
checkLandmarks(p) ==
    (IF ~p.main THEN <<staticIssue("body", "landmark-one-main", "1.3.1", "moderate")>> ELSE <<>>)
    \o (IF ~p.nav THEN <<staticIssue("body", "landmark-navigation", "1.3.1", "moderate")>>
        ELSE <<>>)
    \o (IF ~p.footer THEN <<staticIssue("body", "landmark-contentinfo", "1.3.1", "moderate")>>
        ELSE <<>>)

\* 15. Empty headings
checkEmptyHeadings(p) ==
    (LET failing == SelectSeq(p.headings, LAMBDA h : h.text = "")
     IN  [k \in 1..Len(failing) |-> staticIssue(headingHtml(failing[k]), "empty-heading", "1.3.1", "moderate")])

\* 16. Missing form submit buttons
checkForms(p) ==
    (LET failing == SelectSeq(p.forms, LAMBDA form : ~form.hasSubmitButton)
     IN  [k \in 1..Len(failing) |-> staticIssue("form", "form-submit-button", "3.2.2", "moderate")])

\* analyzeStaticHTML(html, url).issues: the sixteen checks in order
analyzeStaticHTML(p) ==
    checkTitle(p) \o checkLanguage(p) \o checkViewport(p) \o checkSkipLink(p)
    \o checkImages(p) \o checkFields(p) \o checkLinks(p) \o checkTabindex(p)
    \o checkAriaExpanded(p) \o checkRoles(p) \o checkHeadingOrder(p)
    \o checkLandmarks(p) \o checkEmptyHeadings(p) \o checkForms(p)

simpleIssue(selector, ruleId, wcag, severity) ==
    [selector |-> selector, ruleId |-> ruleId, wcag |-> <<"wcag2a", wcag>>,
     severity |-> severity, source |-> "simple"]

\* performSimpleScan's checks on the markup: img tags without alt=, input
\* tags without id=, aria-label= and aria-labelledby=, no heading tag, no lang=
performSimpleScan(p) ==
    (LET failing == SelectSeq(p.imgs, LAMBDA img : ~img.alt)
     IN  [k \in 1..Len(failing) |-> simpleIssue("img", "missing-alt-text", "wcag111", "critical")])
    \o (LET failing == SelectSeq(p.fields,
                LAMBDA f : f.tag = "input" /\ ~f.id /\ ~f.ariaLabel /\ ~f.ariaLabelledby)
        IN  [k \in 1..Len(failing) |->
                simpleIssue("input", "missing-form-label", "wcag131", "critical")])
    \o (IF p.headings = <<>>
        THEN <<simpleIssue("body", "missing-headings", "wcag241", "moderate")>> ELSE <<>>)
    \o (IF ~p.language
        THEN <<simpleIssue("html", "missing-lang-attribute", "wcag311", "critical")>>
        ELSE <<>>)

\* previousLevel when the loop of the heading-hierarchy check reaches
\* heading i: 0 at the first heading
previousLevel(headings, i) == IF i = 1 THEN 0 ELSE headings[i - 1].level

\* evaluate of the heading-hierarchy check on heading i: false when it skips
headingHierarchy(headings, i) == ~(headings[i].level > previousLevel(headings, i) + 1)

\* the headings on which the custom heading-order rule fails
headingOrderViolations(headings) ==
    SelectSeq([i \in 1..Len(headings) |-> i], LAMBDA i : ~headingHierarchy(headings, i))

AnalyzeStaticHTML ==
    /\ "static-analysis" \notin analysed
    /\ staticAnalysis' = analyzeStaticHTML(page)
    /\ analysed' = analysed \cup {"static-analysis"}
    /\ UNCHANGED <<page, simpleScan, headingOrderRule>>

PerformSimpleScan ==
    /\ "simple" \notin analysed
    /\ simpleScan' = performSimpleScan(page)
    /\ analysed' = analysed \cup {"simple"}
    /\ UNCHANGED <<page, staticAnalysis, headingOrderRule>>

\* axe.run with the custom rules registered, as far as heading-order goes
RunHeadingOrderRule ==
    /\ "axe-core" \notin analysed
    /\ headingOrderRule' = headingOrderViolations(page.headings)
    /\ analysed' = analysed \cup {"axe-core"}
    /\ UNCHANGED <<page, staticAnalysis, simpleScan>>

(***************************************************************************)
(* The rate limit of the suggest route: checkRateLimit.                    *)
(***************************************************************************)
MaxTicks == 2         \* advances of the clock

LimitFree == 10
LimitPaid == 30
WindowMs == 60000

Tiers == {"free", "paid"}
\* x-forwarded-for, x-real-ip, or 'unknown'
ClientIPs == {"203.0.113.7", "unknown"}
\* the two clients of a run: one IP in both tiers, two IPs in one tier,
\* or two IPs in different tiers
ClientPairs ==
    { {<<"203.0.113.7", "free">>, <<"203.0.113.7", "paid">>},
      {<<"203.0.113.7", "free">>, <<"unknown", "free">>},
      {<<"203.0.113.7", "free">>, <<"unknown", "paid">>} }
\* the clock moves on by a millisecond or by a whole window
ClockSteps == {1, WindowMs}

\* const key = `${ip}:${tier}`
rateKey(ip, tier) == ip \o ":" \o tier

limitOf(tier) == IF tier = "free" THEN LimitFree ELSE LimitPaid

\* rateLimitStore.set(key, entry)
storeSet(key, entry) ==
    [k \in DOMAIN rateLimitStore \cup {key} |->
        IF k = key THEN entry ELSE rateLimitStore[k]]

\* the request refused only once the count has passed the limit
overLimit(stored, limit) == stored.count > limit

\* if (current.count >= limit)
atLimit(stored, limit) == stored.count >= limit

\* checkRateLimit(ip, tier): the store it leaves and the result it returns
checkRateLimit(ip, tier) ==
    LET key == rateKey(ip, tier)
        limit == limitOf(tier)
    IN  IF key \notin DOMAIN rateLimitStore \/ clock > rateLimitStore[key].resetTime
        THEN [store |-> storeSet(key, [count |-> 1, resetTime |-> clock + WindowMs]),
              result |-> [allowed |-> TRUE, remaining |-> limit - 1,
                          resetTime |-> clock + WindowMs]]
        ELSE LET stored == rateLimitStore[key]
             IN  IF atLimit(stored, limit)
                 THEN [store |-> rateLimitStore,
                       result |-> [allowed |-> FALSE, remaining |-> 0,
                                   resetTime |-> stored.resetTime]]
                 ELSE [store |-> storeSet(key, [stored EXCEPT !.count = @ + 1]),
                       result |-> [allowed |-> TRUE,
                                   remaining |-> limit - (stored.count + 1),
                                   resetTime |-> stored.resetTime]]

\* the key has an entry whose reset time has passed
windowOver(ip, tier) ==
    /\ rateKey(ip, tier) \in DOMAIN rateLimitStore
    /\ clock > rateLimitStore[rateKey(ip, tier)].resetTime

\* the requests allowed so far with the window a result reports
grantedWith(c, result) ==
    LET before == IF c \in DOMAIN granted /\ granted[c].window = result.resetTime
                  THEN granted[c].n ELSE 0
    IN  [window |-> result.resetTime,
         n |-> IF result.allowed THEN before + 1 ELSE before]

\* POST /api/suggest up to its rate-limit check: 429 when not allowed
SuggestRequest(ip, tier) ==
    /\ <<ip, tier>> \in clients
    /\ LET checked == checkRateLimit(ip, tier)
       IN  /\ rateLimitStore' = checked.store
           /\ rateLimit' = checked.result
           /\ suggestStatus' = IF checked.result.allowed THEN "proceeds" ELSE "429"
           /\ granted' = [c \in DOMAIN granted \cup {<<ip, tier>>} |->
                            IF c = <<ip, tier>> THEN grantedWith(c, checked.result)
                            ELSE granted[c]]
           /\ lastRequest' = [client |-> <<ip, tier>>, wasOver |-> windowOver(ip, tier)]
    /\ UNCHANGED <<clients, clock, ticks>>

\* time passes between two requests
Tick(ms) ==
    /\ ticks < MaxTicks
    /\ clock' = clock + ms
    /\ ticks' = ticks + 1
    /\ UNCHANGED <<clients, rateLimitStore, rateLimit, granted, lastRequest, suggestStatus>>

(***************************************************************************)
(* The streaming client: startStreamingScan of the ScanLogs component.     *)
(***************************************************************************)
MaxStreamEvents == 3      \* events of one response stream

\* What a data: line of the stream may hold: the three log types, a results
\* event, base64 results that decode or do not, and anything else.
StreamEventTypes ==
    {"log", "error", "success", "results", "results-encoded", "results-encoded-bad", "other"}

ServerStreams == UNION { [1..n -> StreamEventTypes] : n \in 0..MaxStreamEvents }

\* setLogs(prev => [...prev, entry])
setLogs(type) == Append(logs, type)

\* the catch block after its AbortError test: the error is logged, a full
\* scan tries /api/scan-sync, any other scan calls onError
ClientCatch ==
    IF clientScanType = "full"
    THEN /\ logs' = logs \o <<"error", "log">>
         /\ clientPc' = "sync"
         /\ UNCHANGED onErrorCalls
    ELSE /\ logs' = setLogs("error")
         /\ clientPc' = "done"
         /\ onErrorCalls' = onErrorCalls + 1

\* fetch(apiEndpoint) resolves with an ok response and a body
ClientFetchOk ==
    /\ clientPc = "fetch"
    /\ clientPc' = "reading"
    /\ UNCHANGED <<clientScanType, serverStream, logs, isComplete, onCompleteCalls,
                   onErrorCalls, clientAborted>>

\* fetch rejects, or the response is not ok, or it has no body
ClientFetchFails ==
    /\ clientPc = "fetch"
    /\ ClientCatch
    /\ UNCHANGED <<clientScanType, serverStream, isComplete, onCompleteCalls, clientAborted>>

\* abortController.abort(), by the five-minute timer or the effect's cleanup,
\* while the stream request is pending: the AbortError is caught and the
\* function returns
ClientAbort ==
    /\ clientPc \in {"fetch", "reading"}
    /\ clientAborted' = TRUE
    /\ clientPc' = "done"
    /\ UNCHANGED <<clientScanType, serverStream, logs, isComplete, onCompleteCalls,
                   onErrorCalls>>

\* reader.read() yields the next data: line
ClientReadEvent ==
    /\ clientPc = "reading" /\ serverStream # <<>>
    /\ serverStream' = Tail(serverStream)
    /\ LET type == Head(serverStream)
       IN  IF type \in {"results", "results-encoded"}
           THEN /\ isComplete' = TRUE
                /\ onCompleteCalls' = onCompleteCalls + 1
                /\ clientPc' = "done"
                /\ UNCHANGED logs
           ELSE /\ logs' = IF type = "results-encoded-bad" THEN setLogs("error")
                           ELSE IF type \in {"log", "error", "success"} THEN setLogs(type)
                           ELSE logs
                /\ UNCHANGED <<isComplete, onCompleteCalls, clientPc>>
    /\ UNCHANGED <<clientScanType, onErrorCalls, clientAborted>>

\* reader.read() yields done: break, and the function ends
ClientReadDone ==
    /\ clientPc = "reading" /\ serverStream = <<>>
    /\ clientPc' = "done"
    /\ UNCHANGED <<clientScanType, serverStream, logs, isComplete, onCompleteCalls,
                   onErrorCalls, clientAborted>>

\* reader.read() rejects: the connection broke
ClientReadThrows ==
    /\ clientPc = "reading"
    /\ ClientCatch
    /\ UNCHANGED <<clientScanType, serverStream, isComplete, onCompleteCalls, clientAborted>>

\* the fallback fetch of /api/scan-sync answers ok
ClientSyncOk ==
    /\ clientPc = "sync"
    /\ isComplete' = TRUE
    /\ onCompleteCalls' = onCompleteCalls + 1
    /\ clientPc' = "done"
    /\ UNCHANGED <<clientScanType, serverStream, logs, onErrorCalls, clientAborted>>

\* the fallback fetch rejects (an abort included) or answers not ok
ClientSyncFails(abort) ==
    /\ clientPc = "sync"
    /\ clientAborted' = abort
    /\ onErrorCalls' = onErrorCalls + 1
    /\ clientPc' = "done"
    /\ UNCHANGED <<clientScanType, serverStream, logs, isComplete, onCompleteCalls>>

(***************************************************************************)
(* The worker-backed scan route: handleRegularScan and handleStreamingScan *)
(* in front of WorkerIntegration.                                          *)
(***************************************************************************)
\* What the deployment gives: the worker's /health answering ok, the
\* WORKER_SCAN_SYNC_URL being set, the worker's scan and the simple scan
\* working.  /health is derived from WORKER_SCAN_URL, so a healthy worker
\* has that one set.
WorkerEnvs == [healthy : BOOLEAN, syncUrlSet : BOOLEAN, scanOk : BOOLEAN, simpleOk : BOOLEAN]

\* what the worker answers with
WorkerResults ==
    { [status |-> 200, totalIssues |-> 0, issues |-> <<>>,
       launchStrategy |-> "standard", scanType |-> "full", note |-> "none"],
      [status |-> 200, totalIssues |-> 1,
       issues |-> <<[ruleId |-> "image-alt", severity |-> "critical"]>>,
       launchStrategy |-> "standard", scanType |-> "full", note |-> "none"] }

\* the log and error events of the worker's stream that onLog relays
WorkerRelayed ==
    { <<>>,
      <<logEvent("log", "Navigating to URL...", "")>>,
      <<logEvent("log", "Navigating to URL...", ""),
        logEvent("error", "Page load failed", "")>> }

\* the body of the route's simple-scan fallback result
workerFallbackResults(simpleIssues) ==
    [status |-> 200, totalIssues |-> Len(simpleIssues), issues |-> simpleIssues,
     launchStrategy |-> "fallback", scanType |-> "simple-fallback",
     note |-> "Worker unavailable, using simple scan as fallback"]

\* sendLog of the streaming handler; the regular handler only console.logs
workerLogs(evs) ==
    IF workerRequest.handler = "streaming" THEN workerEvents \o evs ELSE workerEvents

\* the stream left open by the handler
workerCloseSkipped == workerClosed

\* finally { controller.close() }
workerClose ==
    IF workerRequest.handler = "streaming" THEN workerClosed + 1 ELSE workerClosed

\* the error a failing worker scan throws
workerScanError ==
    IF workerRequest.handler = "regular" /\ ~workerEnv.syncUrlSet
    THEN "Worker sync scan URL not configured"
    ELSE IF workerRequest.handler = "regular" THEN "Worker sync scan failed: 502"
    ELSE "No results received from worker"

\* if (!url) return 400
WorkerRejectMissingUrl ==
    /\ workerPc = "start" /\ workerRequest.url = ""
    /\ workerResponse' = [status |-> 400, error |-> "URL is required"]
    /\ workerPc' = "done"
    /\ UNCHANGED <<workerRequest, workerEnv, isHealthy, workerCalled, simpleScanRun,
                   workerEvents, workerClosed>>

\* the health check answered as if the worker were up, whatever it said
checkHealthSkipped == TRUE

\* const isHealthy = await workerIntegration.checkHealth():
\* response.ok of the worker's /health, false if the fetch throws
checkHealth == workerEnv.healthy

\* the health check and the branch on it
WorkerCheckHealth ==
    /\ workerPc = "start" /\ workerRequest.url # ""
    /\ isHealthy' = IF checkHealth THEN "healthy" ELSE "unhealthy"
    /\ workerPc' = IF checkHealth THEN "worker" ELSE "simple"
    /\ workerEvents' = workerLogs(
          <<logEvent("log", "Starting worker scan for URL", "")>> \o
          IF checkHealth THEN <<>>
          ELSE <<logEvent("error", "Worker is not healthy, falling back to simple scan...", ""),
                 logEvent("log", "Initiating simple scan fallback...", "")>>)
    /\ UNCHANGED <<workerRequest, workerEnv, workerCalled, simpleScanRun,
                   workerResponse, workerClosed>>

\* results = await workerIntegration.performSyncScan(url) /
\* performStreamingScan({url, onLog}) resolves
WorkerScanOk(results, relayed) ==
    /\ workerPc = "worker"
    /\ workerEnv.scanOk
    /\ workerRequest.handler = "regular" => workerEnv.syncUrlSet
    /\ workerCalled' = TRUE
    /\ workerResponse' = results
    /\ workerEvents' = workerLogs(
          relayed \o
          <<ResultsEvent, logEvent("success", "Worker scan completed successfully", "")>>)
    /\ workerClosed' = workerClose
    /\ workerPc' = "done"
    /\ UNCHANGED <<workerRequest, workerEnv, isHealthy, simpleScanRun>>

\* the worker scan throws into the handler's catch block
WorkerScanFails(relayed) ==
    /\ workerPc = "worker"
    /\ ~workerEnv.scanOk \/ (workerRequest.handler = "regular" /\ ~workerEnv.syncUrlSet)
    /\ workerCalled' = TRUE
    /\ workerResponse' =
          IF workerRequest.handler = "regular"
          THEN [status |-> 500, error |-> "Internal server error", message |-> workerScanError]
          ELSE workerResponse
    /\ workerEvents' = workerLogs(
          (IF workerRequest.handler = "regular" /\ ~workerEnv.syncUrlSet THEN <<>> ELSE relayed)
          \o <<logEvent("error", "Worker scan error", workerScanError)>>)
    /\ workerClosed' = workerClose
    /\ workerPc' = "done"
    /\ UNCHANGED <<workerRequest, workerEnv, isHealthy, simpleScanRun>>

\* simpleResults = await performSimpleScan(url) resolves
WorkerSimpleScanOk(simpleIssues) ==
    /\ workerPc = "simple"
    /\ workerEnv.simpleOk
    /\ simpleScanRun' = TRUE
    /\ workerResponse' = workerFallbackResults(simpleIssues)
    /\ workerEvents' = workerLogs(
          <<logEvent("log", "Simple scan completed successfully", ""),
            ResultsEvent,
            logEvent("success", "Scan completed with fallback method", "")>>)
    /\ workerClosed' = workerClose
    /\ workerPc' = "done"
    /\ UNCHANGED <<workerRequest, workerEnv, isHealthy, workerCalled>>

\* performSimpleScan rejects
WorkerSimpleScanFails ==
    /\ workerPc = "simple"
    /\ ~workerEnv.simpleOk
    /\ simpleScanRun' = TRUE
    /\ workerResponse' =
          IF workerRequest.handler = "regular"
          THEN [status |-> 500, error |-> "All scan methods failed", message |-> "fetch failed"]
          ELSE workerResponse
    /\ workerEvents' = workerLogs(
          <<logEvent("error", "Fallback scan also failed", "fetch failed")>>)
    /\ workerClosed' = workerClose
    /\ workerPc' = "done"
    /\ UNCHANGED <<workerRequest, workerEnv, isHealthy, workerCalled>>

(***************************************************************************)
(* Specifications.                                                         *)
(***************************************************************************)
\* No request has been handled yet.
Init ==
    /\ allIssues = <<>>
    /\ deduplicatedIssues = NotRun
    /\ dedupeDone = FALSE
    /\ scanIssues = <<>>
    /\ violations = 0
    /\ payload = NotRun
    /\ reportDone = FALSE
    /\ now = 0
    /\ otherScored = <<>>
    /\ rescored = NotRun
    /\ rescoreDone = FALSE
    /\ coverageIssues = <<>>
    /\ wcagCoverage = calculateWCAGCoverage(<<>>)
    /\ enhancedUrl = ""
    /\ enhancedPc = "idle"
    /\ fetched = FALSE
    /\ staticIssues = <<>>
    /\ axeIssues = <<>>
    /\ pa11yIssues = <<>>
    /\ analyzerFailed = {}
    /\ enhancedResponse = NoResponse
    /\ workerRequest = [handler |-> "none", url |-> ""]
    /\ workerEnv = [healthy |-> FALSE, syncUrlSet |-> FALSE, scanOk |-> FALSE, simpleOk |-> FALSE]
    /\ workerPc = "idle"
    /\ isHealthy = "unknown"
    /\ workerCalled = FALSE
    /\ simpleScanRun = FALSE
    /\ workerResponse = NoResponse
    /\ workerEvents = <<>>
    /\ workerClosed = 0
    /\ page = basePage
    /\ analysed = {}
    /\ staticAnalysis = <<>>
    /\ simpleScan = <<>>
    /\ headingOrderRule = <<>>
    /\ clientScanType = "full"
    /\ serverStream = <<>>
    /\ clientPc = "idle"
    /\ logs = <<>>
    /\ isComplete = FALSE
    /\ onCompleteCalls = 0
    /\ onErrorCalls = 0
    /\ clientAborted = FALSE
    /\ clients = {}
    /\ clock = 0
    /\ ticks = 0
    /\ rateLimitStore = <<>>
    /\ rateLimit = [allowed |-> TRUE, remaining |-> 0, resetTime |-> 0]
    /\ granted = <<>>
    /\ lastRequest = [client |-> <<"", "">>, wasOver |-> FALSE]
    /\ suggestStatus = "none"
    /\ request = [handler |-> "none", url |-> ""]
    /\ platform = [wsEndpoint |-> FALSE, remoteUp |-> FALSE,
                   launchable |-> {}, simpleOk |-> FALSE]
    /\ pc = "idle"
    /\ strategy = 1
    /\ launchStrategy = "external"
    /\ browser = "none"
    /\ inFlight = {}
    /\ attempts = <<>>
    /\ retryCount = 0
    /\ axeLoaded = FALSE
    /\ gotoOutcome = "none"
    /\ axeRan = FALSE
    /\ response = NoResponse
    /\ events = <<>>
    /\ streamClosed = 0

DedupeNext ==
    \/ \E issue \in DedupeIssues : CollectIssue(issue) /\ UNCHANGED <<reportVars, coverageVars, enhancedVars, scanVars, laterVars>>
    \/ Deduplicate /\ UNCHANGED <<reportVars, coverageVars, enhancedVars, scanVars, laterVars>>

SpecDedupe == Init /\ [][DedupeNext]_vars

ReportNext ==
    \/ \E impact \in Impacts, nodes \in {1, MaxNodes} :
          MapViolation(impact, nodes, DefaultRule) /\ UNCHANGED <<dedupeVars, coverageVars, enhancedVars, scanVars, laterVars>>
    \/ \E random \in Randoms :
          BuildReport(random) /\ UNCHANGED <<dedupeVars, coverageVars, enhancedVars, scanVars, laterVars>>

SpecReport == Init /\ [][ReportNext]_vars

\* The coverage of a growing list of issues.
CoverageNext ==
    \E wcag \in WcagArrays :
        MeasureCoverage(wcag) /\ UNCHANGED <<dedupeVars, reportVars, enhancedVars, scanVars, laterVars>>

SpecCoverage == Init /\ [][CoverageNext]_vars

\* Reports of scans whose issues differ in rule, message and impact.
PriorityNext ==
    \/ \E impact \in Impacts, rule \in ReportRules :
          /\ violations < MaxScored
          /\ MapViolation(impact, 1, rule)
          /\ UNCHANGED <<dedupeVars, coverageVars, enhancedVars, scanVars, laterVars>>
    \/ \E random \in Randoms :
          BuildReport(random) /\ UNCHANGED <<dedupeVars, coverageVars, enhancedVars, scanVars, laterVars>>

SpecPriority == Init /\ [][PriorityNext]_vars

\* The same scan reported twice, another scan being reported in between.
RescoreRules == {r \in ReportRules : r.ruleId \in {"color-contrast", "region", "duplicate-id"}}
OtherScans ==
    { <<>>,
      <<[impact |-> "critical", ruleId |-> "image-alt",
         message |-> "Image has no alternative text", wcag |-> "WCAG 2.1 - 1.1.1"]>> }

RescoreNext ==
    \/ \E impact \in {"critical", "minor"}, rule \in RescoreRules :
          /\ violations < MaxScored
          /\ MapViolation(impact, 1, rule)
          /\ UNCHANGED <<dedupeVars, coverageVars, enhancedVars, scanVars, laterVars>>
    \/ \E random \in Randoms :
          BuildReport(random) /\ UNCHANGED <<dedupeVars, coverageVars, enhancedVars, scanVars, laterVars>>
    \/ \E otherIssues \in OtherScans :
          ScoreOther(otherIssues) /\ UNCHANGED <<dedupeVars, coverageVars, enhancedVars, scanVars, laterVars>>
    \/ \E random \in Randoms :
          ScoreAgain(random) /\ UNCHANGED <<dedupeVars, coverageVars, enhancedVars, scanVars, laterVars>>

SpecRescore == Init /\ [][RescoreNext]_vars

\* A request arrives at one of the handlers, on some platform.
InitScan ==
    /\ request \in [handler : Handlers, url : Urls]
    /\ platform \in Platforms(request.handler)
    /\ pc = "start"
    /\ strategy = 1
    /\ launchStrategy = "external"
    /\ browser = "none"
    /\ inFlight = {}
    /\ attempts = <<>>
    /\ retryCount = 0
    /\ axeLoaded = FALSE
    /\ gotoOutcome = "none"
    /\ axeRan = FALSE
    /\ response = NoResponse
    /\ events = <<>>
    /\ streamClosed = 0
    /\ allIssues = <<>>
    /\ deduplicatedIssues = NotRun
    /\ dedupeDone = FALSE
    /\ scanIssues = <<>>
    /\ violations = 0
    /\ payload = NotRun
    /\ reportDone = FALSE
    /\ now = 0
    /\ otherScored = <<>>
    /\ rescored = NotRun
    /\ rescoreDone = FALSE
    /\ coverageIssues = <<>>
    /\ wcagCoverage = calculateWCAGCoverage(<<>>)
    /\ enhancedUrl = ""
    /\ enhancedPc = "idle"
    /\ fetched = FALSE
    /\ staticIssues = <<>>
    /\ axeIssues = <<>>
    /\ pa11yIssues = <<>>
    /\ analyzerFailed = {}
    /\ enhancedResponse = NoResponse
    /\ workerRequest = [handler |-> "none", url |-> ""]
    /\ workerEnv = [healthy |-> FALSE, syncUrlSet |-> FALSE, scanOk |-> FALSE, simpleOk |-> FALSE]
    /\ workerPc = "idle"
    /\ isHealthy = "unknown"
    /\ workerCalled = FALSE
    /\ simpleScanRun = FALSE
    /\ workerResponse = NoResponse
    /\ workerEvents = <<>>
    /\ workerClosed = 0
    /\ page = basePage
    /\ analysed = {}
    /\ staticAnalysis = <<>>
    /\ simpleScan = <<>>
    /\ headingOrderRule = <<>>
    /\ clientScanType = "full"
    /\ serverStream = <<>>
    /\ clientPc = "idle"
    /\ logs = <<>>
    /\ isComplete = FALSE
    /\ onCompleteCalls = 0
    /\ onErrorCalls = 0
    /\ clientAborted = FALSE
    /\ clients = {}
    /\ clock = 0
    /\ ticks = 0
    /\ rateLimitStore = <<>>
    /\ rateLimit = [allowed |-> TRUE, remaining |-> 0, resetTime |-> 0]
    /\ granted = <<>>
    /\ lastRequest = [client |-> <<"", "">>, wasOver |-> FALSE]
    /\ suggestStatus = "none"

ScanNext ==
    \/ RejectMissingUrl /\ UNCHANGED <<dedupeVars, reportVars, coverageVars, enhancedVars, laterVars>>
    \/ AcceptRequest /\ UNCHANGED <<dedupeVars, reportVars, coverageVars, enhancedVars, laterVars>>
    \/ ExternalNotConfigured /\ UNCHANGED <<dedupeVars, reportVars, coverageVars, enhancedVars, laterVars>>
    \/ BeginAttempt /\ UNCHANGED <<dedupeVars, reportVars, coverageVars, enhancedVars, laterVars>>
    \/ BrowserAcquired /\ UNCHANGED <<dedupeVars, reportVars, coverageVars, enhancedVars, laterVars>>
    \/ BrowserAttemptFails /\ UNCHANGED <<dedupeVars, reportVars, coverageVars, enhancedVars, laterVars>>
    \/ \E simpleIssues \in SimpleOutcomes :
          SimpleScanSucceeds(simpleIssues) /\ UNCHANGED <<dedupeVars, reportVars, coverageVars, enhancedVars, laterVars>>
    \/ SimpleScanFails /\ UNCHANGED <<dedupeVars, reportVars, coverageVars, enhancedVars, laterVars>>
    \/ QuickLaunchFails /\ UNCHANGED <<dedupeVars, reportVars, coverageVars, enhancedVars, laterVars>>
    \/ NewPageOk /\ UNCHANGED <<dedupeVars, reportVars, coverageVars, enhancedVars, laterVars>>
    \/ NewPageThrows /\ UNCHANGED <<dedupeVars, reportVars, coverageVars, enhancedVars, laterVars>>
    \/ GotoOk /\ UNCHANGED <<dedupeVars, reportVars, coverageVars, enhancedVars, laterVars>>
    \/ GotoTimeout /\ UNCHANGED <<dedupeVars, reportVars, coverageVars, enhancedVars, laterVars>>
    \/ GotoRejects /\ UNCHANGED <<dedupeVars, reportVars, coverageVars, enhancedVars, laterVars>>
    \/ InjectOk /\ UNCHANGED <<dedupeVars, reportVars, coverageVars, enhancedVars, laterVars>>
    \/ InjectThrows /\ UNCHANGED <<dedupeVars, reportVars, coverageVars, enhancedVars, laterVars>>
    \/ WaitAxeLoaded /\ UNCHANGED <<dedupeVars, reportVars, coverageVars, enhancedVars, laterVars>>
    \/ WaitAxeTimeout /\ UNCHANGED <<dedupeVars, reportVars, coverageVars, enhancedVars, laterVars>>
    \/ \E violationsFound \in AxeOutcomes :
          EvaluateOk(violationsFound) /\ UNCHANGED <<dedupeVars, reportVars, coverageVars, enhancedVars, laterVars>>
    \/ \E msg \in {ErrAxeMissing, ErrPageClosed} :
          EvaluateThrows(msg) /\ UNCHANGED <<dedupeVars, reportVars, coverageVars, enhancedVars, laterVars>>

SpecScan == InitScan /\ [][ScanNext]_vars

\* A request arrives at the enhanced-simple route.
InitEnhanced ==
    /\ allIssues = <<>>
    /\ deduplicatedIssues = NotRun
    /\ dedupeDone = FALSE
    /\ scanIssues = <<>>
    /\ violations = 0
    /\ payload = NotRun
    /\ reportDone = FALSE
    /\ now = 0
    /\ otherScored = <<>>
    /\ rescored = NotRun
    /\ rescoreDone = FALSE
    /\ coverageIssues = <<>>
    /\ wcagCoverage = calculateWCAGCoverage(<<>>)
    /\ enhancedUrl \in Urls
    /\ enhancedPc = "start"
    /\ fetched = FALSE
    /\ staticIssues = <<>>
    /\ axeIssues = <<>>
    /\ pa11yIssues = <<>>
    /\ analyzerFailed = {}
    /\ enhancedResponse = NoResponse
    /\ workerRequest = [handler |-> "none", url |-> ""]
    /\ workerEnv = [healthy |-> FALSE, syncUrlSet |-> FALSE, scanOk |-> FALSE, simpleOk |-> FALSE]
    /\ workerPc = "idle"
    /\ isHealthy = "unknown"
    /\ workerCalled = FALSE
    /\ simpleScanRun = FALSE
    /\ workerResponse = NoResponse
    /\ workerEvents = <<>>
    /\ workerClosed = 0
    /\ page = basePage
    /\ analysed = {}
    /\ staticAnalysis = <<>>
    /\ simpleScan = <<>>
    /\ headingOrderRule = <<>>
    /\ clientScanType = "full"
    /\ serverStream = <<>>
    /\ clientPc = "idle"
    /\ logs = <<>>
    /\ isComplete = FALSE
    /\ onCompleteCalls = 0
    /\ onErrorCalls = 0
    /\ clientAborted = FALSE
    /\ clients = {}
    /\ clock = 0
    /\ ticks = 0
    /\ rateLimitStore = <<>>
    /\ rateLimit = [allowed |-> TRUE, remaining |-> 0, resetTime |-> 0]
    /\ granted = <<>>
    /\ lastRequest = [client |-> <<"", "">>, wasOver |-> FALSE]
    /\ suggestStatus = "none"
    /\ request = [handler |-> "none", url |-> ""]
    /\ platform = [wsEndpoint |-> FALSE, remoteUp |-> FALSE,
                   launchable |-> {}, simpleOk |-> FALSE]
    /\ pc = "idle"
    /\ strategy = 1
    /\ launchStrategy = "external"
    /\ browser = "none"
    /\ inFlight = {}
    /\ attempts = <<>>
    /\ retryCount = 0
    /\ axeLoaded = FALSE
    /\ gotoOutcome = "none"
    /\ axeRan = FALSE
    /\ response = NoResponse
    /\ events = <<>>
    /\ streamClosed = 0

EnhancedNext ==
    \/ EnhancedRejectMissingUrl /\ UNCHANGED <<dedupeVars, reportVars, coverageVars, scanVars, laterVars>>
    \/ \E outcome \in FetchOutcomes :
          EnhancedFetch(outcome) /\ UNCHANGED <<dedupeVars, reportVars, coverageVars, scanVars, laterVars>>
    \/ \E found \in StaticOutcomes :
          EnhancedStaticOk(found) /\ UNCHANGED <<dedupeVars, reportVars, coverageVars, scanVars, laterVars>>
    \/ EnhancedStaticThrows /\ UNCHANGED <<dedupeVars, reportVars, coverageVars, scanVars, laterVars>>
    \/ \E throws \in BOOLEAN :
          EnhancedRegisterRules(throws) /\ UNCHANGED <<dedupeVars, reportVars, coverageVars, scanVars, laterVars>>
    \/ \E found \in EnhancedAxeOutcomes :
          EnhancedAxeOk(found) /\ UNCHANGED <<dedupeVars, reportVars, coverageVars, scanVars, laterVars>>
    \/ EnhancedAxeThrows /\ UNCHANGED <<dedupeVars, reportVars, coverageVars, scanVars, laterVars>>
    \/ EnhancedPa11yFails /\ UNCHANGED <<dedupeVars, reportVars, coverageVars, scanVars, laterVars>>
    \/ \E found \in Pa11yOutcomes :
          EnhancedPa11yOk(found) /\ UNCHANGED <<dedupeVars, reportVars, coverageVars, scanVars, laterVars>>

SpecEnhanced == InitEnhanced /\ [][EnhancedNext]_vars

\* A request arrives at the worker-backed scan route.
InitWorker ==
    /\ allIssues = <<>>
    /\ deduplicatedIssues = NotRun
    /\ dedupeDone = FALSE
    /\ scanIssues = <<>>
    /\ violations = 0
    /\ payload = NotRun
    /\ reportDone = FALSE
    /\ now = 0
    /\ otherScored = <<>>
    /\ rescored = NotRun
    /\ rescoreDone = FALSE
    /\ coverageIssues = <<>>
    /\ wcagCoverage = calculateWCAGCoverage(<<>>)
    /\ enhancedUrl = ""
    /\ enhancedPc = "idle"
    /\ fetched = FALSE
    /\ staticIssues = <<>>
    /\ axeIssues = <<>>
    /\ pa11yIssues = <<>>
    /\ analyzerFailed = {}
    /\ enhancedResponse = NoResponse
    /\ workerRequest \in [handler : ScanRouteHandlers, url : Urls]
    /\ workerEnv \in WorkerEnvs
    /\ workerPc = "start"
    /\ isHealthy = "unknown"
    /\ workerCalled = FALSE
    /\ simpleScanRun = FALSE
    /\ workerResponse = NoResponse
    /\ workerEvents = <<>>
    /\ workerClosed = 0
    /\ page = basePage
    /\ analysed = {}
    /\ staticAnalysis = <<>>
    /\ simpleScan = <<>>
    /\ headingOrderRule = <<>>
    /\ clientScanType = "full"
    /\ serverStream = <<>>
    /\ clientPc = "idle"
    /\ logs = <<>>
    /\ isComplete = FALSE
    /\ onCompleteCalls = 0
    /\ onErrorCalls = 0
    /\ clientAborted = FALSE
    /\ clients = {}
    /\ clock = 0
    /\ ticks = 0
    /\ rateLimitStore = <<>>
    /\ rateLimit = [allowed |-> TRUE, remaining |-> 0, resetTime |-> 0]
    /\ granted = <<>>
    /\ lastRequest = [client |-> <<"", "">>, wasOver |-> FALSE]
    /\ suggestStatus = "none"
    /\ request = [handler |-> "none", url |-> ""]
    /\ platform = [wsEndpoint |-> FALSE, remoteUp |-> FALSE,
                   launchable |-> {}, simpleOk |-> FALSE]
    /\ pc = "idle"
    /\ strategy = 1
    /\ launchStrategy = "external"
    /\ browser = "none"
    /\ inFlight = {}
    /\ attempts = <<>>
    /\ retryCount = 0
    /\ axeLoaded = FALSE
    /\ gotoOutcome = "none"
    /\ axeRan = FALSE
    /\ response = NoResponse
    /\ events = <<>>
    /\ streamClosed = 0

WorkerNext ==
    \/ WorkerRejectMissingUrl /\ UNCHANGED <<earlierVars, scanVars, staticVars, clientVars, rateVars>>
    \/ WorkerCheckHealth /\ UNCHANGED <<earlierVars, scanVars, staticVars, clientVars, rateVars>>
    \/ \E results \in WorkerResults, relayed \in WorkerRelayed :
          WorkerScanOk(results, relayed) /\ UNCHANGED <<earlierVars, scanVars, staticVars, clientVars, rateVars>>
    \/ \E relayed \in WorkerRelayed :
          WorkerScanFails(relayed) /\ UNCHANGED <<earlierVars, scanVars, staticVars, clientVars, rateVars>>
    \/ \E simpleIssues \in SimpleOutcomes :
          WorkerSimpleScanOk(simpleIssues) /\ UNCHANGED <<earlierVars, scanVars, staticVars, clientVars, rateVars>>
    \/ WorkerSimpleScanFails /\ UNCHANGED <<earlierVars, scanVars, staticVars, clientVars, rateVars>>

SpecWorker == InitWorker /\ [][WorkerNext]_vars

\* A page has been fetched; the static checks run on it.
InitStatic ==
    /\ allIssues = <<>>
    /\ deduplicatedIssues = NotRun
    /\ dedupeDone = FALSE
    /\ scanIssues = <<>>
    /\ violations = 0
    /\ payload = NotRun
    /\ reportDone = FALSE
    /\ now = 0
    /\ otherScored = <<>>
    /\ rescored = NotRun
    /\ rescoreDone = FALSE
    /\ coverageIssues = <<>>
    /\ wcagCoverage = calculateWCAGCoverage(<<>>)
    /\ enhancedUrl = ""
    /\ enhancedPc = "idle"
    /\ fetched = FALSE
    /\ staticIssues = <<>>
    /\ axeIssues = <<>>
    /\ pa11yIssues = <<>>
    /\ analyzerFailed = {}
    /\ enhancedResponse = NoResponse
    /\ workerRequest = [handler |-> "none", url |-> ""]
    /\ workerEnv = [healthy |-> FALSE, syncUrlSet |-> FALSE, scanOk |-> FALSE, simpleOk |-> FALSE]
    /\ workerPc = "idle"
    /\ isHealthy = "unknown"
    /\ workerCalled = FALSE
    /\ simpleScanRun = FALSE
    /\ workerResponse = NoResponse
    /\ workerEvents = <<>>
    /\ workerClosed = 0
    /\ page \in Pages
    /\ analysed = {}
    /\ staticAnalysis = <<>>
    /\ simpleScan = <<>>
    /\ headingOrderRule = <<>>
    /\ clientScanType = "full"
    /\ serverStream = <<>>
    /\ clientPc = "idle"
    /\ logs = <<>>
    /\ isComplete = FALSE
    /\ onCompleteCalls = 0
    /\ onErrorCalls = 0
    /\ clientAborted = FALSE
    /\ clients = {}
    /\ clock = 0
    /\ ticks = 0
    /\ rateLimitStore = <<>>
    /\ rateLimit = [allowed |-> TRUE, remaining |-> 0, resetTime |-> 0]
    /\ granted = <<>>
    /\ lastRequest = [client |-> <<"", "">>, wasOver |-> FALSE]
    /\ suggestStatus = "none"
    /\ request = [handler |-> "none", url |-> ""]
    /\ platform = [wsEndpoint |-> FALSE, remoteUp |-> FALSE,
                   launchable |-> {}, simpleOk |-> FALSE]
    /\ pc = "idle"
    /\ strategy = 1
    /\ launchStrategy = "external"
    /\ browser = "none"
    /\ inFlight = {}
    /\ attempts = <<>>
    /\ retryCount = 0
    /\ axeLoaded = FALSE
    /\ gotoOutcome = "none"
    /\ axeRan = FALSE
    /\ response = NoResponse
    /\ events = <<>>
    /\ streamClosed = 0

StaticNext ==
    \/ AnalyzeStaticHTML /\ UNCHANGED <<earlierVars, scanVars, workerVars, clientVars, rateVars>>
    \/ PerformSimpleScan /\ UNCHANGED <<earlierVars, scanVars, workerVars, clientVars, rateVars>>
    \/ RunHeadingOrderRule /\ UNCHANGED <<earlierVars, scanVars, workerVars, clientVars, rateVars>>

SpecStatic == InitStatic /\ [][StaticNext]_vars

\* A request arrives at the scan route, the quick scan route or the
\* worker-backed scan route.  Every promise a handler awaits settles, so a
\* handler that can take a step eventually takes one.
InitStreams ==
    /\ \/ /\ request \in [handler : Handlers, url : Urls]
          /\ platform \in Platforms(request.handler)
          /\ pc = "start"
          /\ workerRequest = [handler |-> "none", url |-> ""]
          /\ workerEnv = [healthy |-> FALSE, syncUrlSet |-> FALSE, scanOk |-> FALSE,
                          simpleOk |-> FALSE]
          /\ workerPc = "idle"
       \/ /\ request = [handler |-> "none", url |-> ""]
          /\ platform = [wsEndpoint |-> FALSE, remoteUp |-> FALSE,
                         launchable |-> {}, simpleOk |-> FALSE]
          /\ pc = "idle"
          /\ workerRequest \in [handler : ScanRouteHandlers, url : Urls]
          /\ workerEnv \in WorkerEnvs
          /\ workerPc = "start"
    /\ allIssues = <<>>
    /\ deduplicatedIssues = NotRun
    /\ dedupeDone = FALSE
    /\ scanIssues = <<>>
    /\ violations = 0
    /\ payload = NotRun
    /\ reportDone = FALSE
    /\ now = 0
    /\ otherScored = <<>>
    /\ rescored = NotRun
    /\ rescoreDone = FALSE
    /\ coverageIssues = <<>>
    /\ wcagCoverage = calculateWCAGCoverage(<<>>)
    /\ enhancedUrl = ""
    /\ enhancedPc = "idle"
    /\ fetched = FALSE
    /\ staticIssues = <<>>
    /\ axeIssues = <<>>
    /\ pa11yIssues = <<>>
    /\ analyzerFailed = {}
    /\ enhancedResponse = NoResponse
    /\ isHealthy = "unknown"
    /\ workerCalled = FALSE
    /\ simpleScanRun = FALSE
    /\ workerResponse = NoResponse
    /\ workerEvents = <<>>
    /\ workerClosed = 0
    /\ page = basePage
    /\ analysed = {}
    /\ staticAnalysis = <<>>
    /\ simpleScan = <<>>
    /\ headingOrderRule = <<>>
    /\ clientScanType = "full"
    /\ serverStream = <<>>
    /\ clientPc = "idle"
    /\ logs = <<>>
    /\ isComplete = FALSE
    /\ onCompleteCalls = 0
    /\ onErrorCalls = 0
    /\ clientAborted = FALSE
    /\ clients = {}
    /\ clock = 0
    /\ ticks = 0
    /\ rateLimitStore = <<>>
    /\ rateLimit = [allowed |-> TRUE, remaining |-> 0, resetTime |-> 0]
    /\ granted = <<>>
    /\ lastRequest = [client |-> <<"", "">>, wasOver |-> FALSE]
    /\ suggestStatus = "none"
    /\ strategy = 1
    /\ launchStrategy = "external"
    /\ browser = "none"
    /\ inFlight = {}
    /\ attempts = <<>>
    /\ retryCount = 0
    /\ axeLoaded = FALSE
    /\ gotoOutcome = "none"
    /\ axeRan = FALSE
    /\ response = NoResponse
    /\ events = <<>>
    /\ streamClosed = 0

StreamsNext ==
    \/ ScanNext
    \/ WorkerNext

SpecStreams == InitStreams /\ [][StreamsNext]_vars /\ WF_vars(StreamsNext)

\* The component became visible: startStreamingScan has logged 'Starting
\* streaming scan...' and awaits its fetch.  Every promise it awaits settles.
InitClient ==
    /\ allIssues = <<>>
    /\ deduplicatedIssues = NotRun
    /\ dedupeDone = FALSE
    /\ scanIssues = <<>>
    /\ violations = 0
    /\ payload = NotRun
    /\ reportDone = FALSE
    /\ now = 0
    /\ otherScored = <<>>
    /\ rescored = NotRun
    /\ rescoreDone = FALSE
    /\ coverageIssues = <<>>
    /\ wcagCoverage = calculateWCAGCoverage(<<>>)
    /\ enhancedUrl = ""
    /\ enhancedPc = "idle"
    /\ fetched = FALSE
    /\ staticIssues = <<>>
    /\ axeIssues = <<>>
    /\ pa11yIssues = <<>>
    /\ analyzerFailed = {}
    /\ enhancedResponse = NoResponse
    /\ workerRequest = [handler |-> "none", url |-> ""]
    /\ workerEnv = [healthy |-> FALSE, syncUrlSet |-> FALSE, scanOk |-> FALSE, simpleOk |-> FALSE]
    /\ workerPc = "idle"
    /\ isHealthy = "unknown"
    /\ workerCalled = FALSE
    /\ simpleScanRun = FALSE
    /\ workerResponse = NoResponse
    /\ workerEvents = <<>>
    /\ workerClosed = 0
    /\ page = basePage
    /\ analysed = {}
    /\ staticAnalysis = <<>>
    /\ simpleScan = <<>>
    /\ headingOrderRule = <<>>
    /\ clientScanType \in {"full", "simple"}
    /\ serverStream \in ServerStreams
    /\ clientPc = "fetch"
    /\ logs = <<"log">>
    /\ isComplete = FALSE
    /\ onCompleteCalls = 0
    /\ onErrorCalls = 0
    /\ clientAborted = FALSE
    /\ clients = {}
    /\ clock = 0
    /\ ticks = 0
    /\ rateLimitStore = <<>>
    /\ rateLimit = [allowed |-> TRUE, remaining |-> 0, resetTime |-> 0]
    /\ granted = <<>>
    /\ lastRequest = [client |-> <<"", "">>, wasOver |-> FALSE]
    /\ suggestStatus = "none"
    /\ request = [handler |-> "none", url |-> ""]
    /\ platform = [wsEndpoint |-> FALSE, remoteUp |-> FALSE,
                   launchable |-> {}, simpleOk |-> FALSE]
    /\ pc = "idle"
    /\ strategy = 1
    /\ launchStrategy = "external"
    /\ browser = "none"
    /\ inFlight = {}
    /\ attempts = <<>>
    /\ retryCount = 0
    /\ axeLoaded = FALSE
    /\ gotoOutcome = "none"
    /\ axeRan = FALSE
    /\ response = NoResponse
    /\ events = <<>>
    /\ streamClosed = 0

ClientNext ==
    \/ ClientFetchOk /\ UNCHANGED <<earlierVars, scanVars, workerVars, staticVars, rateVars>>
    \/ ClientFetchFails /\ UNCHANGED <<earlierVars, scanVars, workerVars, staticVars, rateVars>>
    \/ ClientAbort /\ UNCHANGED <<earlierVars, scanVars, workerVars, staticVars, rateVars>>
    \/ ClientReadEvent /\ UNCHANGED <<earlierVars, scanVars, workerVars, staticVars, rateVars>>
    \/ ClientReadDone /\ UNCHANGED <<earlierVars, scanVars, workerVars, staticVars, rateVars>>
    \/ ClientReadThrows /\ UNCHANGED <<earlierVars, scanVars, workerVars, staticVars, rateVars>>
    \/ ClientSyncOk /\ UNCHANGED <<earlierVars, scanVars, workerVars, staticVars, rateVars>>
    \/ \E abort \in BOOLEAN :
          ClientSyncFails(abort) /\ UNCHANGED <<earlierVars, scanVars, workerVars, staticVars, rateVars>>

SpecClient == InitClient /\ [][ClientNext]_vars /\ WF_vars(ClientNext)

\* Two clients send requests to the suggest route of one server instance,
\* whose store is empty.
InitRate ==
    /\ allIssues = <<>>
    /\ deduplicatedIssues = NotRun
    /\ dedupeDone = FALSE
    /\ scanIssues = <<>>
    /\ violations = 0
    /\ payload = NotRun
    /\ reportDone = FALSE
    /\ now = 0
    /\ otherScored = <<>>
    /\ rescored = NotRun
    /\ rescoreDone = FALSE
    /\ coverageIssues = <<>>
    /\ wcagCoverage = calculateWCAGCoverage(<<>>)
    /\ enhancedUrl = ""
    /\ enhancedPc = "idle"
    /\ fetched = FALSE
    /\ staticIssues = <<>>
    /\ axeIssues = <<>>
    /\ pa11yIssues = <<>>
    /\ analyzerFailed = {}
    /\ enhancedResponse = NoResponse
    /\ workerRequest = [handler |-> "none", url |-> ""]
    /\ workerEnv = [healthy |-> FALSE, syncUrlSet |-> FALSE, scanOk |-> FALSE, simpleOk |-> FALSE]
    /\ workerPc = "idle"
    /\ isHealthy = "unknown"
    /\ workerCalled = FALSE
    /\ simpleScanRun = FALSE
    /\ workerResponse = NoResponse
    /\ workerEvents = <<>>
    /\ workerClosed = 0
    /\ page = basePage
    /\ analysed = {}
    /\ staticAnalysis = <<>>
    /\ simpleScan = <<>>
    /\ headingOrderRule = <<>>
    /\ clientScanType = "full"
    /\ serverStream = <<>>
    /\ clientPc = "idle"
    /\ logs = <<>>
    /\ isComplete = FALSE
    /\ onCompleteCalls = 0
    /\ onErrorCalls = 0
    /\ clientAborted = FALSE
    /\ clients \in ClientPairs
    /\ clock = 0
    /\ ticks = 0
    /\ rateLimitStore = <<>>
    /\ rateLimit = [allowed |-> TRUE, remaining |-> 0, resetTime |-> 0]
    /\ granted = <<>>
    /\ lastRequest = [client |-> <<"", "">>, wasOver |-> FALSE]
    /\ suggestStatus = "none"
    /\ request = [handler |-> "none", url |-> ""]
    /\ platform = [wsEndpoint |-> FALSE, remoteUp |-> FALSE,
                   launchable |-> {}, simpleOk |-> FALSE]
    /\ pc = "idle"
    /\ strategy = 1
    /\ launchStrategy = "external"
    /\ browser = "none"
    /\ inFlight = {}
    /\ attempts = <<>>
    /\ retryCount = 0
    /\ axeLoaded = FALSE
    /\ gotoOutcome = "none"
    /\ axeRan = FALSE
    /\ response = NoResponse
    /\ events = <<>>
    /\ streamClosed = 0

RateNext ==
    \/ \E ip \in ClientIPs, tier \in Tiers :
          SuggestRequest(ip, tier)
          /\ UNCHANGED <<earlierVars, scanVars, workerVars, staticVars, clientVars>>
    \/ \E ms \in ClockSteps :
          Tick(ms) /\ UNCHANGED <<earlierVars, scanVars, workerVars, staticVars, clientVars>>

SpecRate == InitRate /\ [][RateNext]_vars

(***************************************************************************)
(* Claims about deduplication (SpecDedupe).                                *)
(***************************************************************************)
SamePair(a, b) == a.ruleId = b.ruleId /\ a.selector = b.selector

\* the issues whose (ruleId, selector) pair no earlier issue has, in input order
RECURSIVE FirstOccurrencesFrom(_, _)
FirstOccurrencesFrom(issues, i) ==
    IF i > Len(issues) THEN <<>>
    ELSE (IF \E j \in 1..(i - 1) : SamePair(issues[j], issues[i])
          THEN <<>> ELSE <<issues[i]>>)
         \o FirstOccurrencesFrom(issues, i + 1)

\* C1: dedupe returns exactly the subsequence of the first occurrence of each
\* (ruleId, selector) pair, in input order.
C1_DedupeIsFirstOccurrences ==
    dedupeDone => deduplicatedIssues = FirstOccurrencesFrom(allIssues, 1)

\* C2: two issues are the same finding iff ruleId and selector are both equal:
\* issues that differ in ruleId or selector are both kept (each pair of the
\* input is still present in the output), and no pair is kept twice.
C2_SameFindingIffSamePair ==
    dedupeDone =>
        /\ \A i, j \in DOMAIN allIssues :
               ~SamePair(allIssues[i], allIssues[j]) =>
                   /\ \E k \in DOMAIN deduplicatedIssues :
                          SamePair(deduplicatedIssues[k], allIssues[i])
                   /\ \E k \in DOMAIN deduplicatedIssues :
                          SamePair(deduplicatedIssues[k], allIssues[j])
        /\ \A k, l \in DOMAIN deduplicatedIssues :
               SamePair(deduplicatedIssues[k], deduplicatedIssues[l]) => k = l

(***************************************************************************)
(* Claims about the overall score (SpecReport).                            *)
(***************************************************************************)
\* C3: overallScore is an integer in [0,100], and exactly 100 for no issues.
C3_ScoreInRange ==
    reportDone =>
        /\ payload.score \in 0..100
        /\ (Len(scanIssues) = 0 => payload.score = 100)

\* a report whose weighted sum fell below zero and was clamped
C3_Witness ==
    reportDone /\ weightedScore(scanIssues) < 0 /\ payload.score = 0

\* C4: the score of a report is 100 - (10 critical + 5 serious + 2 moderate
\* + 1 minor), clamped to [0,100], over the severityCounts of the same report.
C4_ScoreMatchesSeverityCounts ==
    reportDone =>
        payload.score =
            Max(0, Min(100, 100 - ( 10 * payload.severityCounts["critical"]
                                  + 5 * payload.severityCounts["serious"]
                                  + 2 * payload.severityCounts["moderate"]
                                  + 1 * payload.severityCounts["minor"] )))

\* C5: more issues of one severity, the other counts fixed, never raise the score.
C5_ScoreMonotone ==
    [][(Len(scanIssues') > Len(scanIssues))
           => overallScore(scanIssues') <= overallScore(scanIssues)]_vars

\* issues of a second violation have been added and the score has dropped
C5_Witness ==
    violations >= 2 /\ ~reportDone /\ overallScore(scanIssues) \in 1..99

(***************************************************************************)
(* Claims about the scan handlers (SpecScan).                              *)
(***************************************************************************)
attempted(s) == \E i \in DOMAIN attempts : attempts[i].strategy = s
scanIsOver == pc = "done" /\ urlGiven

allStrategiesFailed ==
    /\ scanIsOver
    /\ Len(attempts) = Len(chainOf(handler))
    /\ \A i \in DOMAIN attempts : attempts[i].outcome = "failed"

\* the failure reasons the caller receives: the details of the error body,
\* or the error messages of the stream's error events
reportedReasons ==
    IF handler = "streaming"
    THEN {events[i].detail : i \in {j \in DOMAIN events : events[j].type = "error"}}
    ELSE {response.details}

\* C8: when every strategy fails, the error the caller receives carries the
\* failure reason of each strategy that was attempted.
C8_AllFailureReasonsReported ==
    allStrategiesFailed =>
        \A i \in DOMAIN attempts : attempts[i].reason \in reportedReasons

\* C9: no handler ends while a browser it acquired is still open.
C9_BrowserClosedOnExit ==
    pc = "done" => browser # "open"

scanIssueOf(reportIssue) ==
    [ impact |-> reportIssue.impact, ruleId |-> reportIssue.ruleId,
      message |-> reportIssue.message, wcag |-> reportIssue.wcag ]

\* C14: the issues of a produced report are in descending order of priority
\* score, and issues of equal priority score keep their discovery order.
C14_IssuesSortedByPriority ==
    reportDone =>
        /\ \A i, j \in DOMAIN payload.issues :
              i < j => payload.issues[i].priorityScore >= payload.issues[j].priorityScore
        /\ \A p \in {payload.issues[i].priorityScore : i \in DOMAIN payload.issues} :
              [k \in DOMAIN SelectSeq(payload.issues, LAMBDA x : x.priorityScore = p) |->
                  scanIssueOf(SelectSeq(payload.issues, LAMBDA x : x.priorityScore = p)[k])]
              = SelectSeq(scanIssues, LAMBDA x : priorityScoreOf[x] = p)

\* the stated weights and effort estimates
statedImpactWeight(issue) ==
    CASE issue.impact = "critical" -> 4
      [] issue.impact = "serious"  -> 3
      [] issue.impact = "moderate" -> 2
      [] issue.impact = "minor"    -> 1
      [] OTHER                     -> 1

statedEffort(issue) ==
    IF includesAny(toLowerCase(issue.message), {"structure", "semantic", "heading"}) THEN 2
    ELSE IF includesAny(toLowerCase(issue.message), {"navigation", "menu", "complex"}) THEN 3
    ELSE 1

\* the stated bonus categories, in their order, and what each one adds
BonusOrder == <<"keyboard", "contrast", "forms", "aria", "landmarks", "media">>
BonusValue == <<2, 2, 2, 1, 1, 1>>

bonusMatches(k, issue) ==
    CASE BonusOrder[k] = "keyboard"  -> matchesKeyboard(issue)
      [] BonusOrder[k] = "contrast"  -> matchesContrast(issue)
      [] BonusOrder[k] = "forms"     -> matchesForms(issue)
      [] BonusOrder[k] = "aria"      -> matchesAria(issue)
      [] BonusOrder[k] = "landmarks" -> matchesLandmarks(issue)
      [] BonusOrder[k] = "media"     -> matchesMedia(issue)

firstMatchBonus(issue) ==
    LET matching == {k \in DOMAIN BonusOrder : bonusMatches(k, issue)}
    IN  IF matching = {} THEN 0
        ELSE BonusValue[CHOOSE k \in matching : \A m \in matching : k <= m]

statedEffortOf == [issue \in ScanIssueDomain |-> statedEffort(issue)]
firstMatchBonusOf == [issue \in ScanIssueDomain |-> firstMatchBonus(issue)]
matchingBonusesOf ==
    [issue \in ScanIssueDomain |-> {k \in DOMAIN BonusOrder : bonusMatches(k, issue)}]

\* C15: the priority of every issue of a report is
\* (impactWeight + userImpactBonus) x (3 - effortEstimate), with the weights
\* 4/3/2/1 (1 for a missing impact) and the effort 1, 2 or 3.
C15_PriorityFormula ==
    reportDone =>
        \A i \in DOMAIN payload.issues :
            LET issue == scanIssueOf(payload.issues[i])
            IN  payload.issues[i].priorityScore =
                    (statedImpactWeight(issue) + firstMatchBonusOf[issue])
                        * (3 - statedEffortOf[issue])

C15_Witness ==
    /\ reportDone
    /\ \E i, j \in DOMAIN payload.issues :
          /\ payload.issues[i].impact = NoImpact
          /\ statedEffortOf[scanIssueOf(payload.issues[i])] = 2
          /\ payload.issues[i].priorityScore = 1
          /\ payload.issues[j].impact = "critical"
          /\ statedEffortOf[scanIssueOf(payload.issues[j])] = 3
          /\ payload.issues[j].priorityScore = 0

\* the bonus that went into a priority score
bonusApplied(reportIssue) ==
    LET issue == scanIssueOf(reportIssue)
    IN  reportIssue.priorityScore \div (3 - statedEffortOf[issue])
            - statedImpactWeight(issue)

\* C16: at most one user-impact bonus is applied to an issue, that of the
\* first matching category in the stated order, and 0 when none matches.
C16_FirstMatchingBonusOnly ==
    reportDone =>
        \A i \in DOMAIN payload.issues :
            LET issue == scanIssueOf(payload.issues[i])
            IN  statedEffortOf[issue] < 3 =>
                    /\ bonusApplied(payload.issues[i]) \in {0, 1, 2}
                    /\ bonusApplied(payload.issues[i]) = firstMatchBonusOf[issue]

C16_Witness ==
    /\ reportDone
    /\ \E i, j \in DOMAIN payload.issues :
          /\ Cardinality(matchingBonusesOf[scanIssueOf(payload.issues[i])]) >= 2
          /\ statedEffortOf[scanIssueOf(payload.issues[i])] < 3
          /\ bonusApplied(payload.issues[i]) = 2
          /\ matchingBonusesOf[scanIssueOf(payload.issues[j])] = {}
          /\ bonusApplied(payload.issues[j]) = 0

\* the first category of the list whose keyword rule matches
firstMatchCategory(issue) ==
    LET matching == {k \in DOMAIN Categories : categoryMatches(Categories[k], issue)}
    IN  IF matching = {} THEN "Other"
        ELSE Categories[CHOOSE k \in matching : \A m \in matching : k <= m]

firstMatchCategoryOf == [issue \in ScanIssueDomain |-> firstMatchCategory(issue)]
matchingCategoriesOf ==
    [issue \in ScanIssueDomain |->
        {k \in DOMAIN Categories : categoryMatches(Categories[k], issue)}]

\* C17: every issue of a report carries exactly one category label of the
\* fixed list: the first one whose keyword rule matches, Other when none does.
C17_FirstMatchingCategory ==
    reportDone =>
        \A i \in DOMAIN payload.issues :
            /\ payload.issues[i].category
                  \in {Categories[k] : k \in DOMAIN Categories} \cup {"Other"}
            /\ payload.issues[i].category
                  = firstMatchCategoryOf[scanIssueOf(payload.issues[i])]

C17_Witness ==
    /\ reportDone
    /\ \E i, j \in DOMAIN payload.issues :
          /\ Cardinality(matchingCategoriesOf[scanIssueOf(payload.issues[i])]) >= 2
          /\ payload.issues[i].category = "Forms & Controls"
          /\ payload.issues[j].category = "Other"

\* what scoring yields: priority scores, category labels, overall score
scoringOf(report) ==
    [ priorities |-> [i \in DOMAIN report.issues |-> report.issues[i].priorityScore],
      categories |-> [i \in DOMAIN report.issues |-> report.issues[i].category],
      score      |-> report.score ]

Digits == {"0", "1", "2", "3", "4", "5", "6", "7", "8", "9"}

\* The success criterion an entry of issue.wcag cites: a dotted number
\* cites itself, an axe-core tag such as "wcag244" cites 2.4.4, and a
\* conformance-level tag such as "wcag2a" cites none.
criteriaOfRef(ref) ==
    IF includes(ref, ".") THEN {ref}
    ELSE IF /\ Len(ref) = 7
            /\ SubSeq(ref, 1, 4) = "wcag"
            /\ \A k \in 5..7 : SubSeq(ref, k, k) \in Digits
         THEN {SubSeq(ref, 5, 5) \o "." \o SubSeq(ref, 6, 6) \o "." \o SubSeq(ref, 7, 7)}
         ELSE {}

citedBy == [wcag \in WcagArrays |-> UNION {criteriaOfRef(wcag[k]) : k \in DOMAIN wcag}]

citedCriteria(issues) == UNION {citedBy[issues[i].wcag] : i \in DOMAIN issues}

\* C19: adding an issue that cites a WCAG criterion no issue cited so far
\* strictly increases covered, and adding an issue that cites only criteria
\* cited already leaves covered unchanged.
C19_CoverageMonotone ==
    [][ coverageIssues' # coverageIssues =>
          LET added == citedBy[coverageIssues'[Len(coverageIssues')].wcag]
              before == citedCriteria(coverageIssues)
          IN  /\ (added \ before # {} => wcagCoverage'.covered > wcagCoverage.covered)
              /\ (added \subseteq before => wcagCoverage'.covered = wcagCoverage.covered)
      ]_vars

\* C20: covered is the number of criteria of the reference set that at least
\* one issue cites, so 0 <= covered <= total and 0 <= percentage <= 100.
C20_CoveredCountsReferenceCriteria ==
    /\ wcagCoverage.covered = Cardinality(allWCAG \cap citedCriteria(coverageIssues))
    /\ wcagCoverage.covered \in 0..wcagCoverage.total
    /\ wcagCoverage.percentage \in 0..100

(***************************************************************************)
(* Failures of the analyzers of the enhanced-simple scan.                  *)
(***************************************************************************)
pageAnalysed == enhancedPc = "done" /\ analyzerFailed # {}

\* C11: when one analyzer throws, the scan still succeeds and its issues are
\* exactly those of the other analyzers.
C11_AnalyzerFailureIsolated ==
    pageAnalysed =>
        /\ enhancedResponse.status = 200
        /\ enhancedResponse.issues
              = deduplicateIssues(staticIssues \o axeIssues \o pa11yIssues)

\* C12: when the third-party auditor fails, it contributes no issue and the
\* scan answers with the issues of the other analyzers; it never fails.
C12_AuditorFailureIsolated ==
    (enhancedPc = "done" /\ "pa11y" \in analyzerFailed) =>
        /\ enhancedResponse.status = 200
        /\ enhancedResponse.success
        /\ enhancedResponse.issuesBySource.pa11y = 0
        /\ enhancedResponse.issues = deduplicateIssues(staticIssues \o axeIssues)

C12_Witness ==
    /\ enhancedPc = "done"
    /\ "pa11y" \in analyzerFailed
    /\ enhancedResponse.status = 200
    /\ Len(enhancedResponse.issues) >= 2
    /\ Len(staticIssues) >= 1 /\ Len(axeIssues) >= 1

\* C13: a request whose URL is missing or malformed is rejected with an
\* invalid-input error before any connection, launch or fetch is started.
C13_BadUrlRejectedBeforeAcquisition ==
    (pc # "idle" /\ ~navigable(request.url)) =>
        /\ inFlight = {}
        /\ browser = "none"
        /\ (pc = "done" => response.status = 400)

(***************************************************************************)
(* The simple-scan fallback of the unified scan route.                     *)
(***************************************************************************)
\* no remote service is configured, no local launch works, the fetch does
noBrowserButFetch ==
    /\ handler \in ScanRouteHandlers
    /\ ~platform.wsEndpoint
    /\ platform.launchable = {}
    /\ succeeds("simple-scan")

C22_ResultsUnlessAllModesFail ==
    (scanIsOver /\ handler = "regular" /\ succeeds("simple-scan")) =>
        response.status = 200

\* C23: in the worker-backed scan route the worker's health is checked before
\* either scan is started; a request that finds the worker healthy is handed to
\* the worker and the simple scan is not run; one that finds it unhealthy never
\* reaches the worker, the simple scan is run instead, and when that succeeds its
\* result is returned marked as a fallback (scanType simple-fallback, with the
\* note).
workerMarkedFallback ==
    /\ workerResponse.status = 200
    /\ workerResponse.scanType = "simple-fallback"
    /\ workerResponse.launchStrategy = "fallback"
    /\ workerResponse.note = "Worker unavailable, using simple scan as fallback"
    /\ workerRequest.handler = "streaming" =>
          \E i \in 1..Len(workerEvents) : workerEvents[i] = ResultsEvent
RECURSIVE sumNodes(_)
sumNodes(vs) == IF vs = <<>> THEN 0 ELSE Head(vs).nodes + sumNodes(Tail(vs))
issuesOfRule(issues, id) == Len(SelectSeq(issues, LAMBDA issue : issue.ruleId = id))
engineResult == response.status = 200 /\ response.scanType \in {"full", "quick"}
placeholderOnly(f) ==
    /\ f.tag = "input" /\ f.placeholder
    /\ ~f.id /\ ~f.ariaLabel /\ ~f.ariaLabelledby /\ ~f.title
issuesOfRuleIn(issues, rules) == SelectSeq(issues, LAMBDA issue : issue.ruleId \in rules)
C25_PlaceholderCountsAsLabel ==
    (\A k \in 1..Len(page.fields) : placeholderOnly(page.fields[k])) =>
        /\ "static-analysis" \in analysed =>
              issuesOfRuleIn(staticAnalysis, {"form-field-labels"}) = <<>>
        /\ "simple" \in analysed =>
              issuesOfRuleIn(simpleScan, {"missing-form-label"}) = <<>>

\* C26: every issue of the static analyzer has the severity of its check:
\* critical for missing alt, missing lang, unlabeled form field and disabled
\* user scaling, moderate for every other check.
CriticalChecks == {"image-alt", "html-has-lang", "form-field-labels", "meta-viewport-scale"}
C26_SeverityFixedPerCheck ==
    \A k \in 1..Len(staticAnalysis) :
        staticAnalysis[k].severity =
            IF staticAnalysis[k].ruleId \in CriticalChecks THEN "critical" ELSE "moderate"

\* C26, as the code has it: the missing title is critical too; the severity
\* of an issue of the static analyzer is critical for missing title, missing
\* alt, missing lang, unlabeled form field and disabled user scaling, and
\* moderate for every other check.
C26_SeverityFixedPerCheckWithTitle ==
    \A k \in 1..Len(staticAnalysis) :
        staticAnalysis[k].severity =
            IF staticAnalysis[k].ruleId \in CriticalChecks \cup {"document-title"}
            THEN "critical" ELSE "moderate"
C26_Witness ==
    /\ "static-analysis" \in analysed
    /\ issuesOfRuleIn(staticAnalysis, {"document-title"}) # <<>>
    /\ issuesOfRuleIn(staticAnalysis, {"html-has-lang"}) # <<>>
    /\ issuesOfRuleIn(staticAnalysis, {"skip-link"}) # <<>>

\* C27: a heading gets a heading-order issue exactly when its level is more
\* than one greater than the level of the heading right before it, and the
\* issue is on that later heading: so for the static analyzer's issues and
\* for the headings the custom heading-order rule fails.
skipPositions(headings) == SelectSeq([i \in 1..Len(headings) |-> i], LAMBDA i : i \in skips(headings))
C27_HeadingOrderExactlyOnSkips ==
    LET at == skipPositions(page.headings)
        found == issuesOfRuleIn(staticAnalysis, {"heading-order"})
    IN  /\ "static-analysis" \in analysed =>
              /\ Len(found) = Len(at)
              /\ \A k \in 1..Len(at) : found[k].selector = headingHtml(page.headings[at[k]])
        /\ "axe-core" \in analysed => headingOrderRule = at

\* C28: the stream of a streaming scan response, of the scan route or of the
\* worker-backed route, is eventually closed, and closed once; nothing is
\* enqueued once it is closed; and when it is closed it has carried exactly one
\* results event or, carrying none, at least one event of type error.
eventsOfType(evs, type) == Len(SelectSeq(evs, LAMBDA e : e.type = type))
closedProperly(evs, closed) ==
    /\ closed <= 1
    /\ eventsOfType(evs, "results") <= 1
    /\ closed = 1 =>
          eventsOfType(evs, "results") = 1 \/ eventsOfType(evs, "error") >= 1
scanStreamOpen == handler = "streaming" /\ urlGiven
workerStreamOpen == workerRequest.handler = "streaming" /\ workerRequest.url # ""
C28_StreamClosedOnceAfterResultsOrError ==
    /\ [](closedProperly(events, streamClosed) /\ closedProperly(workerEvents, workerClosed))
    /\ [][/\ streamClosed >= 1 => events' = events
          /\ workerClosed >= 1 => workerEvents' = workerEvents]_vars
    /\ [](scanStreamOpen => <>(streamClosed = 1))
    /\ [](workerStreamOpen => <>(workerClosed = 1))
C28_Witness ==
    /\ workerStreamOpen /\ workerClosed = 1
    /\ eventsOfType(workerEvents, "results") = 0
    /\ eventsOfType(workerEvents, "error") >= 1

\* C29: a scan of the streaming client that is not aborted eventually invokes
\* exactly one of onComplete and onError, whatever the server sends before it
\* closes the stream.
C29_OneCallbackUnlessAborted ==
    /\ [](onCompleteCalls + onErrorCalls <= 1)
    /\ <>(clientAborted \/ onCompleteCalls + onErrorCalls = 1)

\* C30: for each (client IP, tier) key, at most 10 (free) or 30 (paid)
\* requests are allowed within one rate-limit window; a denied request leaves
\* the stored counter unchanged and is answered 429; the remaining count
\* reported is never negative; and the first request after the window's reset
\* time is allowed and starts a new window with count 1, one minute long.
storedFor(c) == rateLimitStore[rateKey(c[1], c[2])]
C30_RateLimitPerKeyAndWindow ==
    /\ [](/\ \A c \in DOMAIN granted : granted[c].n <= limitOf(c[2])
          /\ rateLimit.remaining >= 0
          /\ suggestStatus = "429" <=> ~rateLimit.allowed
          /\ lastRequest.wasOver =>
                /\ rateLimit.allowed
                /\ storedFor(lastRequest.client).count = 1
                /\ storedFor(lastRequest.client).resetTime = rateLimit.resetTime)
    /\ [][/\ ~rateLimit'.allowed => rateLimitStore' = rateLimitStore
          /\ (lastRequest'.wasOver /\ clock' = clock) =>
                rateLimit'.resetTime = clock + WindowMs]_vars
C30_Witness ==
    /\ suggestStatus = "429"
    /\ lastRequest.client[2] = "paid"
    /\ granted[lastRequest.client].n = LimitPaid
    /\ granted[lastRequest.client].window = rateLimit.resetTime
    /\ granted[lastRequest.client].window > WindowMs

====
